---- MODULE Spec2Model ----
(***************************************************************************)
(* Model of the play-by-post activity checker (scripts/checker.py,         *)
(* scripts/helpers.py, scripts/state.py).                                  *)
(*                                                                         *)
(* Time is counted in whole minutes since an arbitrary epoch.  A duration  *)
(* the code measures in hours or days (hours_since, days_since,            *)
(* interval_elapsed) is kept in minutes and compared with the threshold    *)
(* converted to minutes, which is the same comparison on exact values.     *)
(* The snapshot ("state" dict of the code) is one function from key names  *)
(* to values; a Python dict is a function whose DOMAIN is its key set.     *)
(***************************************************************************)
EXTENDS Integers, Sequences, FiniteSets, TLC

VARIABLES
    state,      \* the snapshot dict passed through every handler and check
    now,        \* wall clock (minutes)
    sent,       \* boundary calls made by the last action
    folded,     \* number of updates folded so far
    delivered   \* message of a check -> time of its last confirmed send

vars == <<state, now, sent, folded, delivered>>

----------------------------------------------------------------------------
(* Units *)

MinutesPerHour == 60
MinutesPerDay == 1440

Hours(h) == h * MinutesPerHour
Days(d) == d * MinutesPerDay

None == -1

----------------------------------------------------------------------------
(* Tunable settings, helpers.py *)

PLAYER_WARN_WEEKS == <<1, 2, 3>>
PLAYER_REMOVE_WEEKS == 4
ROSTER_INTERVAL_DAYS == 3
POTW_INTERVAL_DAYS == 7
POTW_MIN_POSTS == 5
PACE_INTERVAL_DAYS == 7
LEADERBOARD_INTERVAL_DAYS == 3
COMBAT_PING_HOURS == 4
RECRUITMENT_INTERVAL_DAYS == 14
REQUIRED_PLAYERS == 6
POST_SESSION_MINUTES == 10
ALERT_AFTER_HOURS == 4

----------------------------------------------------------------------------
(* Configuration: one campaign with a split topic, one GM, two players.   *)

GM == "999"
PlayerIds == {"42", "43"}
UserIds == PlayerIds \cup {GM}

\* config["topic_pairs"]: canonical id (first pbp_topic_id) of the campaigns
Campaigns == {"100"}

gm_ids_for_campaign(pid) == {GM}

feature_enabled(pid, feature) == TRUE

\* maps.to_chat
to_chat(pid) == "200"

\* from_user.username / first_name of each sender
UsernameOf(uid) == IF uid = "42" THEN "alice" ELSE IF uid = "43" THEN "bob" ELSE "gm"

Usernames == {UsernameOf(u) : u \in PlayerIds}

\* placeholder id f"pending_{username}" of _handle_addplayer
PendingId(username) == IF username = "alice" THEN "pending_alice" ELSE "pending_bob"

----------------------------------------------------------------------------
(* Dict helpers *)

Put(d, k, v) == [x \in (DOMAIN d) \cup {k} |-> IF x = k THEN v ELSE d[x]]

Del(d, k) == [x \in (DOMAIN d) \ {k} |-> d[x]]

EmptyDict == [x \in {} |-> None]

\* d.get(k, default)
Get(d, k, default) == IF k \in DOMAIN d THEN d[k] ELSE default

\* list membership
InList(x, l) == \E i \in 1..Len(l) : l[i] = x

Elems(l) == {l[i] : i \in 1..Len(l)}

\* A dict the code iterates over keeps the order in which its keys were first
\* inserted: the records of players and removed_players carry their position
\* in the field ord.
\* d[key] = rec: an existing key keeps its position, a new one goes last
Enlist(d, key, rec) ==
    IF key \in DOMAIN d
    THEN [d EXCEPT ![key] = [rec EXCEPT !.ord = d[key].ord]]
    ELSE Put(d, key, [rec EXCEPT !.ord = Cardinality(DOMAIN d) + 1])

\* del d[key] for every key of keys
Unlist(d, keys) ==
    [k \in (DOMAIN d) \ keys |->
        [d[k] EXCEPT !.ord = Cardinality({j \in (DOMAIN d) \ keys : d[j].ord <= d[k].ord})]]

\* the key of keys a loop over d meets first
FirstOf(d, keys) == CHOOSE k \in keys : \A j \in keys : d[k].ord <= d[j].ord

RECURSIVE Listed(_)
\* the members of a set as a list
Listed(keys) ==
    IF keys = {}
    THEN <<>>
    ELSE LET k == CHOOSE x \in keys : TRUE
         IN <<k>> \o Listed(keys \ {k})

\* The values of post_timestamps[pid] are lists, so the order of its keys is
\* kept beside it, in post_order[pid].
\* list(post_timestamps[pid]): the users in the order of their insertion; a
\* key the order does not hold yet goes last
topic_order(st, pid) ==
    LET users == DOMAIN Get(Get(st, "post_timestamps", EmptyDict), pid, EmptyDict)
        known == SelectSeq(Get(Get(st, "post_order", EmptyDict), pid, <<>>),
                           LAMBDA uid : uid \in users)
    IN known \o Listed(users \ Elems(known))

\* the key order after a write to post_timestamps: deleted keys leave it,
\* the others keep their places
Reordered(st) ==
    Put(st, "post_order", [pid \in DOMAIN st.post_timestamps |-> topic_order(st, pid)])

----------------------------------------------------------------------------
(* Time helpers *)

\* duration in minutes; callers compare with Hours(n)
hours_since(t, then) == t - then

\* duration in minutes; callers compare with Days(n)
days_since(t, then) == t - then

interval_elapsedMutant(last, interval_days, t) ==
    IF last = None THEN TRUE ELSE (t - last) >= Hours(interval_days)

interval_elapsed(last, interval_days, t) ==
    IF last = None THEN TRUE ELSE (t - last) >= Days(interval_days)

\* helpers.players_by_campaign(state)[pid]: the active players of a campaign
players_by_campaign(st, pid) ==
    {k \in DOMAIN st.players : st.players[k].pbp_topic_id = pid}

----------------------------------------------------------------------------
(* Boundary calls.  A call is recorded with the result the boundary gave. *)

\* kind: which message; who: the users it names; arg: its number (round, week)
Msg(kind, pid, who, arg, ok) ==
    [kind |-> kind, pid |-> pid, who |-> who, arg |-> arg, ok |-> ok]

NoCalls == {}

\* result of a handler: the snapshot it leaves and the calls it made
Ctx(st, out) == [st |-> st, out |-> out]

----------------------------------------------------------------------------
(* Inbound messages.  A text is a parsed command line.                    *)

MaxRound == 2

Phases == {"players", "enemies"}

RoundTexts ==
    [cmd : {"/round"}, round : 0..MaxRound, phase : Phases \cup {"other"}]

KickTexts == [cmd : {"/kick"}, target : Usernames]

AddTexts == [cmd : {"/addplayer"}, username : Usernames]

PlainTexts == [cmd : {"post", "/status", "/endcombat", "/pause", "/resume"}]

Texts == RoundTexts \cup KickTexts \cup AddTexts \cup PlainTexts

----------------------------------------------------------------------------
(* Combat turn state machine *)

NewCombatMutant(round_num, phase, now_iso) ==
    [active |-> TRUE,
     round |-> 1,
     current_phase |-> phase,
     phase_started_at |-> now_iso,
     players_acted |-> <<>>,
     last_ping_at |-> None]

NewCombat(round_num, phase, now_iso) ==
    [active |-> TRUE,
     round |-> round_num,
     current_phase |-> phase,
     phase_started_at |-> now_iso,
     players_acted |-> <<>>,
     last_ping_at |-> None]

\* acted-set after an advance of an existing combat record
ResetActedMutant(combat, round_num, phase) ==
    IF phase = "players" /\ combat.current_phase # "players"
    THEN <<>>
    ELSE combat.players_acted

ResetActed(combat, round_num, phase) ==
    IF phase = "players"
       /\ (combat.current_phase # "players" \/ combat.round # round_num)
    THEN <<>>
    ELSE combat.players_acted

_handle_round_command(c, text, pid, now_iso) ==
    IF text.round = 0 \/ text.phase \notin Phases
    THEN c
    ELSE LET st == c.st
             reply == Msg(IF text.phase = "players" THEN "round_players"
                                                       ELSE "round_enemies",
                          pid, {}, text.round, TRUE)
         IN IF pid \notin DOMAIN st.combat
            THEN Ctx([st EXCEPT !.combat =
                         Put(@, pid, NewCombat(text.round, text.phase, now_iso))],
                     c.out \cup {reply})
            ELSE LET combat == st.combat[pid]
                 IN Ctx([st EXCEPT !.combat[pid] =
                            [combat EXCEPT
                                !.players_acted = ResetActed(combat, text.round, text.phase),
                                !.round = text.round,
                                !.current_phase = text.phase,
                                !.phase_started_at = now_iso,
                                !.last_ping_at = None]],
                        c.out \cup {reply})

CombatGmCommandMutant(c, text, user_id, pid, now_iso) ==
    IF user_id \in gm_ids_for_campaign(pid)
    THEN IF text.cmd = "/round"
         THEN _handle_round_command(c, text, pid, now_iso)
         ELSE IF text.cmd = "/endcombat" /\ pid \in DOMAIN c.st.combat
              THEN Ctx([c.st EXCEPT !.combat[pid].active = FALSE],
                       c.out \cup {Msg("endcombat", pid, {}, 0, TRUE)})
              ELSE c
    ELSE c

\* first half of _handle_combat_message: GM commands
CombatGmCommand(c, text, user_id, pid, now_iso) ==
    IF user_id \in gm_ids_for_campaign(pid)
    THEN IF text.cmd = "/round"
         THEN _handle_round_command(c, text, pid, now_iso)
         ELSE IF text.cmd = "/endcombat" /\ pid \in DOMAIN c.st.combat
              THEN Ctx([c.st EXCEPT !.combat = Del(@, pid)],
                       c.out \cup {Msg("endcombat", pid, {}, 0, TRUE)})
              ELSE c
    ELSE c

TrackActedMutant(c, user_id, pid) ==
    IF /\ pid \in DOMAIN c.st.combat
       /\ c.st.combat[pid].active
       /\ c.st.combat[pid].current_phase = "players"
       /\ user_id \notin gm_ids_for_campaign(pid)
    THEN Ctx([c.st EXCEPT !.combat[pid].players_acted = Append(@, user_id)], c.out)
    ELSE c

\* second half of _handle_combat_message: track the player's action
TrackActed(c, user_id, pid) ==
    IF /\ pid \in DOMAIN c.st.combat
       /\ c.st.combat[pid].active
       /\ c.st.combat[pid].current_phase = "players"
       /\ user_id \notin gm_ids_for_campaign(pid)
       /\ ~InList(user_id, c.st.combat[pid].players_acted)
    THEN Ctx([c.st EXCEPT !.combat[pid].players_acted = Append(@, user_id)], c.out)
    ELSE c

_handle_combat_message(c, text, user_id, pid, now_iso) ==
    TrackActed(CombatGmCommand(c, text, user_id, pid, now_iso), user_id, pid)

----------------------------------------------------------------------------
(* Roster commands *)

\* the entry _handle_kick stops at: a player of the campaign whose username
\* is the target (the model's targets are usernames)
KickMatches(st, pid, target) ==
    {k \in players_by_campaign(st, pid) : st.players[k].username = target}

_handle_kick(c, pid, target, t) ==
    LET st == c.st
        matches == KickMatches(st, pid, target)
    IN IF matches = {}
       THEN Ctx(st, c.out \cup {Msg("kick_nomatch", pid, {}, 0, TRUE)})
       ELSE LET match_key == FirstOf(st.players, matches)
                removed == st.players[match_key]
            IN Ctx([st EXCEPT
                      !.players = Unlist(@, {match_key}),
                      !.removed_players =
                          Enlist(@, match_key,
                                 [removed_at |-> t,
                                  username |-> removed.username,
                                  kicked |-> TRUE,
                                  ord |-> 0])],
                   c.out \cup {Msg("kick", pid, {match_key[2]}, 0, TRUE)})

_handle_addplayer(c, pid, username, now_iso) ==
    LET st == c.st
        placeholder_id == PendingId(username)
        player_key == <<pid, placeholder_id>>
        rkeys == {k \in DOMAIN st.removed_players :
                     k[1] = pid /\ st.removed_players[k].username = username}
    IN IF \E k \in players_by_campaign(st, pid) : st.players[k].username = username
       THEN Ctx(st, c.out \cup {Msg("addplayer_exists", pid, {}, 0, TRUE)})
       ELSE Ctx([st EXCEPT
                   !.players =
                       Enlist(@, player_key,
                              [user_id |-> placeholder_id,
                               username |-> username,
                               pbp_topic_id |-> pid,
                               last_post_time |-> now_iso,
                               last_warned_week |-> 0,
                               ord |-> 0]),
                   !.removed_players =
                       IF rkeys = {} THEN @
                       ELSE Unlist(@, {FirstOf(@, rkeys)})],
                c.out \cup {Msg("addplayer", pid, {placeholder_id}, 0, TRUE)})

----------------------------------------------------------------------------
(* process_updates: the body of the loop for one accepted message *)

NewOffsetMutant(new_offset, update_id) ==
    IF update_id > new_offset THEN update_id ELSE new_offset

\* new_offset = max(new_offset, update_id + 1)
NewOffset(new_offset, update_id) ==
    IF update_id + 1 > new_offset THEN update_id + 1 ELSE new_offset

IsGmMutant(user_id, pid) == user_id \in UserIds

IsGm(user_id, pid) == user_id \in gm_ids_for_campaign(pid)

ReplyCommands(c, text, pid) ==
    IF text.cmd = "/status"
    THEN Ctx(c.st, c.out \cup {Msg("status", pid, {}, 0, TRUE)})
    ELSE c

PauseCommand(c, text, user_id, pid, now_iso) ==
    IF text.cmd = "/pause" /\ IsGm(user_id, pid)
    THEN Ctx(Put(c.st, "paused_campaigns",
                 Put(Get(c.st, "paused_campaigns", EmptyDict), pid, [paused_at |-> now_iso])),
             c.out \cup {Msg("pause", pid, {}, 0, TRUE)})
    ELSE c

ResumeCommand(c, text, user_id, pid) ==
    IF text.cmd = "/resume" /\ IsGm(user_id, pid)
    THEN IF pid \in DOMAIN Get(c.st, "paused_campaigns", EmptyDict)
         THEN Ctx([c.st EXCEPT !.paused_campaigns = Del(@, pid)],
                  c.out \cup {Msg("resume", pid, {}, 0, TRUE)})
         ELSE Ctx(c.st, c.out \cup {Msg("not_paused", pid, {}, 0, TRUE)})
    ELSE c

KickCommand(c, text, user_id, pid, t) ==
    IF text.cmd = "/kick" /\ IsGm(user_id, pid)
    THEN _handle_kick(c, pid, text.target, t)
    ELSE c

AddPlayerCommand(c, text, user_id, pid, now_iso) ==
    IF text.cmd = "/addplayer" /\ IsGm(user_id, pid)
    THEN _handle_addplayer(c, pid, text.username, now_iso)
    ELSE c

\* topics, message_counts, post_timestamps
TrackPost(c, user_id, pid, msg_time_iso) ==
    LET st == c.st
        user_counts == Get(st.message_counts, pid, EmptyDict)
        user_ts == Get(st.post_timestamps, pid, EmptyDict)
    IN Ctx(Reordered([st EXCEPT
              !.topics = Put(@, pid, [last_message_time |-> msg_time_iso,
                                      last_user_id |-> user_id]),
              !.message_counts =
                  Put(@, pid, Put(user_counts, user_id, Get(user_counts, user_id, 0) + 1)),
              !.post_timestamps =
                  Put(@, pid, Put(user_ts, user_id,
                                  Append(Get(user_ts, user_id, <<>>), msg_time_iso)))]),
           c.out)

\* player-level tracking (skip GM)
TrackPlayer(c, user_id, pid, msg_time_iso) ==
    IF user_id \notin gm_ids_for_campaign(pid)
    THEN LET player_key == <<pid, user_id>>
         IN Ctx([c.st EXCEPT
                   !.players =
                       Enlist(@, player_key,
                              [user_id |-> user_id,
                               username |-> UsernameOf(user_id),
                               pbp_topic_id |-> pid,
                               last_post_time |-> msg_time_iso,
                               last_warned_week |-> 0,
                               ord |-> 0]),
                   !.removed_players =
                       IF player_key \in DOMAIN @ THEN Unlist(@, {player_key}) ELSE @],
                c.out)
    ELSE c

ProcessMessageMutant(st, update_id, user_id, pid, text, date, t) ==
    LET c0 == Ctx([st EXCEPT !.offset = NewOffset(@, update_id)],
                  NoCalls)
        c1 == ReplyCommands(c0, text, pid)
        c2 == PauseCommand(c1, text, user_id, pid, t)
        c3 == ResumeCommand(c2, text, user_id, pid)
        c4 == KickCommand(c3, text, user_id, pid, t)
        c5 == AddPlayerCommand(c4, text, user_id, pid, t)
        c6 == _handle_combat_message(c5, text, user_id, pid, t)
        c7 == TrackPost(c6, user_id, pid, date)
    IN IF text.cmd = "post" THEN TrackPlayer(c7, user_id, pid, date) ELSE c6

\* one iteration of the loop of process_updates for a message _parse_message
\* accepted; t is the wall clock (now_iso), date the platform timestamp
ProcessMessage(st, update_id, user_id, pid, text, date, t) ==
    LET c0 == Ctx([st EXCEPT !.offset = NewOffset(@, update_id)],
                  NoCalls)
        c1 == ReplyCommands(c0, text, pid)
        c2 == PauseCommand(c1, text, user_id, pid, t)
        c3 == ResumeCommand(c2, text, user_id, pid)
        c4 == KickCommand(c3, text, user_id, pid, t)
        c5 == AddPlayerCommand(c4, text, user_id, pid, t)
        c6 == _handle_combat_message(c5, text, user_id, pid, t)
        c7 == TrackPost(c6, user_id, pid, date)
    IN TrackPlayer(c7, user_id, pid, date)

----------------------------------------------------------------------------
(* Periodic checks.  fail is the set of targets (campaign ids or player   *)
(* keys) for which the messaging boundary returns failure in this call.   *)

Known(st, pid) == {st.players[k].user_id : k \in players_by_campaign(st, pid)}

\* the gate of check_combat_turns for one campaign, up to the missing list
PingDueMutant(combat, t) ==
    /\ combat.active
    /\ hours_since(t, combat.phase_started_at) >= Hours(COMBAT_PING_HOURS)
    /\ \/ combat.last_ping_at = None
       \/ hours_since(t, combat.last_ping_at) >= Hours(COMBAT_PING_HOURS)

PingDue(combat, t) ==
    /\ combat.active
    /\ combat.current_phase = "players"
    /\ ~(hours_since(t, combat.phase_started_at) < Hours(COMBAT_PING_HOURS))
    /\ \/ combat.last_ping_at = None
       \/ ~(hours_since(t, combat.last_ping_at) < Hours(COMBAT_PING_HOURS))

Missing(st, pid) == Known(st, pid) \ Elems(st.combat[pid].players_acted)

PingSent(st, pid, t) ==
    /\ feature_enabled(pid, "combat")
    /\ PingDue(st.combat[pid], t)
    /\ Missing(st, pid) # {}

check_combat_turnsMutant(st, t, fail) ==
    LET pinged == {pid \in DOMAIN st.combat : PingSent(st, pid, t)}
    IN Ctx(st,
           {Msg("ping", pid, Missing(st, pid), st.combat[pid].round, pid \notin fail)
               : pid \in pinged})

check_combat_turns(st, t, fail) ==
    LET pinged == {pid \in DOMAIN st.combat : PingSent(st, pid, t)}
    IN Ctx([st EXCEPT !.combat =
               [pid \in DOMAIN @ |->
                   IF pid \in pinged /\ pid \notin fail
                   THEN [@[pid] EXCEPT !.last_ping_at = t]
                   ELSE @[pid]]],
           {Msg("ping", pid, Missing(st, pid), st.combat[pid].round, pid \notin fail)
               : pid \in pinged})

----------------------------------------------------------------------------
(* Inactivity ladder *)

Paused(st, pid) == pid \in DOMAIN Get(st, "paused_campaigns", EmptyDict)

\* int(elapsed_days / 7): int() drops the fraction, towards zero
CurrentWeek(player, t) ==
    LET elapsed_days == days_since(t, player.last_post_time)
    IN IF elapsed_days < 0
       THEN -((-elapsed_days) \div Days(7))
       ELSE elapsed_days \div Days(7)

LadderSkippedMutant(st, k) ==
    ~feature_enabled(st.players[k].pbp_topic_id, "warnings")

LadderSkipped(st, k) ==
    \/ ~feature_enabled(st.players[k].pbp_topic_id, "warnings")
    \/ Paused(st, st.players[k].pbp_topic_id)

\* the players moved out by this run
LadderRemoves(st, k, t) ==
    /\ ~LadderSkipped(st, k)
    /\ CurrentWeek(st.players[k], t) >= PLAYER_REMOVE_WEEKS
    /\ st.players[k].last_warned_week < PLAYER_REMOVE_WEEKS

WarnDueMutant(player, t, week_mark) ==
    player.last_warned_week < week_mark

\* a warn week the player is due for
WarnDue(player, t, week_mark) ==
    CurrentWeek(player, t) >= week_mark /\ player.last_warned_week < week_mark

\* the week_mark the loop over PLAYER_WARN_WEEKS stops at, 0 if none
WarnWeekMutant(st, k, t) ==
    LET due == {i \in 1..Len(PLAYER_WARN_WEEKS) :
                   WarnDue(st.players[k], t, PLAYER_WARN_WEEKS[i])}
    IN IF LadderSkipped(st, k)
          \/ CurrentWeek(st.players[k], t) >= PLAYER_REMOVE_WEEKS
          \/ due = {}
       THEN 0
       ELSE PLAYER_WARN_WEEKS[CHOOSE i \in due : \A j \in due : i >= j]

WarnWeek(st, k, t) ==
    LET due == {i \in 1..Len(PLAYER_WARN_WEEKS) :
                   WarnDue(st.players[k], t, PLAYER_WARN_WEEKS[i])}
    IN IF LadderSkipped(st, k)
          \/ CurrentWeek(st.players[k], t) >= PLAYER_REMOVE_WEEKS
          \/ due = {}
       THEN 0
       ELSE PLAYER_WARN_WEEKS[CHOOSE i \in due : \A j \in due : i <= j]

check_player_activity(st, t, fail) ==
    LET players_to_remove == {k \in DOMAIN st.players : LadderRemoves(st, k, t)}
        warned == {k \in DOMAIN st.players : WarnWeek(st, k, t) # 0}
        remaining == Unlist(st.players, players_to_remove)
        \* the keys the ledger does not hold yet go last, in players order
        appended == players_to_remove \ DOMAIN st.removed_players
        Position(k) ==
            IF k \in DOMAIN st.removed_players
            THEN st.removed_players[k].ord
            ELSE Cardinality(DOMAIN st.removed_players)
                 + Cardinality({j \in appended : st.players[j].ord <= st.players[k].ord})
    IN Ctx([st EXCEPT
              !.players =
                  [k \in DOMAIN remaining |->
                      IF k \in warned /\ k \notin fail
                      THEN [remaining[k] EXCEPT !.last_warned_week = WarnWeek(st, k, t)]
                      ELSE remaining[k]],
              !.removed_players =
                  [k \in (DOMAIN @) \cup players_to_remove |->
                      IF k \in players_to_remove
                      THEN [removed_at |-> t,
                            username |-> st.players[k].username,
                            kicked |-> FALSE,
                            ord |-> Position(k)]
                      ELSE @[k]]],
           {Msg("remove", k[1], {k[2]}, PLAYER_REMOVE_WEEKS, k \notin fail)
               : k \in players_to_remove}
           \cup {Msg("warn", k[1], {k[2]}, WarnWeek(st, k, t), k \notin fail)
               : k \in warned})

----------------------------------------------------------------------------
(* Post statistics: helpers.timestamps_in_window, deduplicate_posts,      *)
(* avg_gap_hours, pace_split                                               *)

\* the timestamps with after <= dt, and dt < before unless before is None
timestamps_in_window(raw_timestamps, after, before) ==
    LET InWindow(dt) == dt >= after /\ (before = None \/ dt < before)
    IN SelectSeq(raw_timestamps, InWindow)

Sorted(timestamps) ==
    LET Before(a, b) == a < b
    IN SortSeq(timestamps, Before)

NewSessionMutant(ts, last) == ts - last > POST_SESSION_MINUTES + 1

\* (ts - sessions[-1]).total_seconds() > POST_SESSION_MINUTES * 60
NewSession(ts, last) == ts - last > POST_SESSION_MINUTES

RECURSIVE Sessions(_, _)
Sessions(sorted_ts, sessions) ==
    IF sorted_ts = <<>>
    THEN sessions
    ELSE Sessions(Tail(sorted_ts),
                  IF sessions = <<>>
                     \/ NewSession(Head(sorted_ts), sessions[Len(sessions)])
                  THEN Append(sessions, Head(sorted_ts))
                  ELSE sessions)

deduplicate_postsMutant(timestamps) == Sessions(timestamps, <<>>)

\* the first post of each posting session
deduplicate_posts(timestamps) == Sessions(Sorted(timestamps), <<>>)

get_topic_timestamps(st, pid) == Get(Get(st, "post_timestamps", EmptyDict), pid, EmptyDict)

RECURSIVE SessionCount(_, _, _, _)
\* the sessions of the users of uids inside the window, added up
SessionCount(topic_ts, uids, after, before) ==
    IF uids = {}
    THEN 0
    ELSE LET uid == CHOOSE u \in uids : TRUE
         IN Len(deduplicate_posts(timestamps_in_window(topic_ts[uid], after, before)))
            + SessionCount(topic_ts, uids \ {uid}, after, before)

pace_split(topic_ts, gm_ids, t) ==
    LET gms == (DOMAIN topic_ts) \cap gm_ids
        others == (DOMAIN topic_ts) \ gm_ids
        week_ago == t - Days(7)
        two_weeks_ago == t - Days(14)
    IN [gm_this |-> SessionCount(topic_ts, gms, week_ago, None),
        gm_last |-> SessionCount(topic_ts, gms, two_weeks_ago, week_ago),
        player_this |-> SessionCount(topic_ts, others, week_ago, None),
        player_last |-> SessionCount(topic_ts, others, two_weeks_ago, week_ago)]

----------------------------------------------------------------------------
(* Interval-gated checks.  Each takes the snapshot, the time of the run   *)
(* and the campaigns whose send fails.                                     *)

\* the target of the cross-campaign messages (config leaderboard_topic_id)
AllCampaigns == "*"

\* a campaign-level message
Notice(kind, pid, fail) == Msg(kind, pid, {}, 0, pid \notin fail)

\* check_and_alert: the campaigns alerted by this run
AlertDue(st, pid, t) ==
    /\ feature_enabled(pid, "alerts")
    /\ ~Paused(st, pid)
    /\ pid \in DOMAIN st.topics
    /\ ~(hours_since(t, st.topics[pid].last_message_time) < Hours(ALERT_AFTER_HOURS))
    /\ \/ Get(st.last_alerts, pid, None) = None
       \/ ~(hours_since(t, st.last_alerts[pid]) < Hours(ALERT_AFTER_HOURS))

\* the debounce dict after the confirmed sends of a run
Stamp(d, acted, fail, t) ==
    [pid \in (DOMAIN d) \cup (acted \ fail) |->
        IF pid \in acted \ fail THEN t ELSE d[pid]]

check_and_alert(st, t, fail) ==
    LET acted == {pid \in Campaigns : AlertDue(st, pid, t)}
    IN Ctx([st EXCEPT !.last_alerts = Stamp(@, acted, fail, t)],
           {Notice("alert", pid, fail) : pid \in acted})

\* the roster has a line: a player with timestamps, or a GM with posts
RosterLines(st, pid) ==
    LET counts == Get(Get(st, "message_counts", EmptyDict), pid, EmptyDict)
        topic_timestamps == get_topic_timestamps(st, pid)
    IN \/ \E uid \in Known(st, pid) : Get(topic_timestamps, uid, <<>>) # <<>>
       \/ \E gm_id \in gm_ids_for_campaign(pid) :
             Get(counts, gm_id, 0) > 0 /\ Get(topic_timestamps, gm_id, <<>>) # <<>>

RosterDue(st, pid, t) ==
    /\ feature_enabled(pid, "roster")
    /\ interval_elapsed(Get(st.last_roster, pid, None), ROSTER_INTERVAL_DAYS, t)
    /\ RosterLines(st, pid)

post_roster_summary(st, t, fail) ==
    LET acted == {pid \in Campaigns : RosterDue(st, pid, t)}
    IN Ctx([st EXCEPT !.last_roster = Stamp(@, acted, fail, t)],
           {Notice("roster", pid, fail) : pid \in acted})

\* the sessions of the last week of one user
WeekSessions(st, pid, uid, t) ==
    deduplicate_posts(
        timestamps_in_window(get_topic_timestamps(st, pid)[uid], t - Days(7), None))

CandidatesMutant(st, pid, t, min_posts) ==
    {uid \in DOMAIN get_topic_timestamps(st, pid) :
        ~(Len(WeekSessions(st, pid, uid, t)) < min_posts)}

\* the candidates when the setting potw_min_posts is min_posts
Candidates(st, pid, t, min_posts) ==
    {uid \in (DOMAIN get_topic_timestamps(st, pid)) \ gm_ids_for_campaign(pid) :
        ~(Len(WeekSessions(st, pid, uid, t)) < min_posts)}

_gather_potw_candidates(st, pid, t) == Candidates(st, pid, t, POTW_MIN_POSTS)

\* F(v), with v computed once
With(v, F(_)) == CHOOSE r \in {F(x) : x \in {v}} : TRUE

\* The gaps are binary64 floats.  A float that is 0.0, or 2^-21 or more, is a
\* whole number of units of 2^-FRACTION_BITS hours with at most MANTISSA_BITS
\* significant bits; the number is written in LIMBS limbs of LIMB_BITS bits,
\* the lowest first.
LIMB_BITS == 12

LIMB == 2 ^ LIMB_BITS

LIMBS == 8

FRACTION_BITS == 76

MANTISSA_BITS == 53

PositiveZero == [i \in 1..LIMBS |-> 0]

RECURSIVE CarryInto(_, _)
\* what the digits below limb i carry into it
CarryInto(digits, i) ==
    IF i = 1 THEN 0 ELSE (digits[i - 1] + CarryInto(digits, i - 1)) \div LIMB

\* the limbs of a number written with digits of LIMB or more
Normal(digits) == <<>> \o [i \in 1..LIMBS |-> (digits[i] + CarryInto(digits, i)) % LIMB]

\* bit i of a number, the lowest being bit 0
Bit(a, i) == (a[i \div LIMB_BITS + 1] \div (2 ^ (i % LIMB_BITS))) % 2

\* the number of bits up to the highest one set
BitLength(a) ==
    IF \A i \in 1..LIMBS : a[i] = 0
    THEN 0
    ELSE LET top == CHOOSE i \in 1..LIMBS : a[i] # 0 /\ \A j \in (i + 1)..LIMBS : a[j] = 0
             width == CHOOSE w \in 1..LIMB_BITS : 2 ^ (w - 1) <= a[top] /\ a[top] < 2 ^ w
         IN LIMB_BITS * (top - 1) + width

\* round-half-even of a number to MANTISSA_BITS significant bits, p bits
\* being dropped; inexact: the number already lost a fraction
RoundedAt(a, p, inexact) ==
    LET Kept(i) ==
            IF LIMB_BITS * i <= p
            THEN 0
            ELSE IF LIMB_BITS * (i - 1) >= p
                 THEN a[i]
                 ELSE (a[i] \div (2 ^ (p - LIMB_BITS * (i - 1)))) * (2 ^ (p - LIMB_BITS * (i - 1)))
        Ulp(i) == IF i = p \div LIMB_BITS + 1 THEN 2 ^ (p % LIMB_BITS) ELSE 0
        up == /\ Bit(a, p - 1) = 1
              /\ \/ inexact
                 \/ Bit(a, p) = 1
                 \/ \E i \in 0..(p - 2) : Bit(a, i) = 1
    IN IF up
       THEN Normal([i \in 1..LIMBS |-> Kept(i) + Ulp(i)])
       ELSE <<>> \o [i \in 1..LIMBS |-> Kept(i)]

\* the binary64 nearest to a number
Rounded(a, inexact) ==
    With(BitLength(a),
         LAMBDA length : IF length <= MANTISSA_BITS
                         THEN <<>> \o a
                         ELSE RoundedAt(a, length - MANTISSA_BITS, inexact))

RECURSIVE RemainderFrom(_, _, _)
\* the limbs i and above of a number, modulo n
RemainderFrom(a, i, n) ==
    IF i > LIMBS THEN 0 ELSE (RemainderFrom(a, i + 1, n) * LIMB + a[i]) % n

\* a / n for floats a and n, n a whole number
Quotient(a, n) ==
    Rounded(<<>> \o [i \in 1..LIMBS |-> (RemainderFrom(a, i + 1, n) * LIMB + a[i]) \div n],
            RemainderFrom(a, 1, n) # 0)

FloatDiv(a, n) == With(a, LAMBDA x : Quotient(x, n))

\* a + b for floats
Total(a, b) == Rounded(Normal([i \in 1..LIMBS |-> a[i] + b[i]]), FALSE)

FloatAdd(a, b) == CHOOSE r \in {Total(x, y) : x \in {a}, y \in {b}} : TRUE

\* a < b for floats
FloatLess(a, b) ==
    \E i \in 1..LIMBS : a[i] < b[i] /\ \A j \in (i + 1)..LIMBS : a[j] = b[j]

\* float(minutes) hours, a whole number of hours
Whole(minutes) ==
    [i \in 1..LIMBS |->
        IF i = FRACTION_BITS \div LIMB_BITS + 1
        THEN (minutes * (2 ^ (FRACTION_BITS % LIMB_BITS))) % LIMB
        ELSE IF i = FRACTION_BITS \div LIMB_BITS + 2
             THEN (minutes * (2 ^ (FRACTION_BITS % LIMB_BITS))) \div LIMB
             ELSE 0]

\* (b - a).total_seconds() / 3600 for times a minutes apart
GapHours(minutes) == FloatDiv(Whole(minutes), MinutesPerHour)

\* the value of avg_gap_hours; None has defined = FALSE
Gap(defined, hours) == [defined |-> defined, hours |-> hours]

RECURSIVE SumGaps(_, _, _)
\* sum(gaps): the gaps between the entries i - 1 and i and the later ones,
\* added to start one after the other
SumGaps(sorted_times, i, start) ==
    IF i > Len(sorted_times)
    THEN start
    ELSE SumGaps(sorted_times, i + 1,
                 FloatAdd(start, GapHours(sorted_times[i] - sorted_times[i - 1])))

\* helpers.avg_gap_hours: None below two entries, else the sum of the gaps
\* between neighbours over their number
avg_gap_hours(sorted_times) ==
    IF Len(sorted_times) < 2
    THEN Gap(FALSE, PositiveZero)
    ELSE Gap(TRUE,
             FloatDiv(SumGaps(sorted_times, 2, PositiveZero), Len(sorted_times) - 1))

\* avg_gap_hours(sessions) or float("inf"): None and 0.0 become infinity,
\* which is written as a gap that is not finite
Infinity == [finite |-> FALSE, hours |-> PositiveZero]

RankingGap(sessions) ==
    With(avg_gap_hours(sessions),
         LAMBDA avg_gap : IF ~avg_gap.defined \/ avg_gap.hours = PositiveZero
                          THEN Infinity
                          ELSE [finite |-> TRUE, hours |-> avg_gap.hours])

\* x < y for ranking gaps
KeyBelow(x, y) == x.finite /\ (~y.finite \/ FloatLess(x.hours, y.hours))

\* the ranking gap of the sessions a is below that of the sessions b
GapBelow(a, b) ==
    CHOOSE r \in {KeyBelow(x, y) : x \in {RankingGap(a)}, y \in {RankingGap(b)}} : TRUE

\* min(candidates, key = avg gap)
WinnerAmong(st, pid, t, candidates) ==
    LET First(keys) ==
            LET least == {w \in candidates :
                             \A c \in candidates : ~KeyBelow(keys[c], keys[w])}
                order == topic_order(st, pid)
                first == CHOOSE i \in 1..Len(order) :
                             /\ order[i] \in least
                             /\ \A j \in 1..(i - 1) : order[j] \notin least
            IN order[first]
    IN With([c \in candidates |-> RankingGap(WeekSessions(st, pid, c, t))] @@ <<>>, First)

Winner(st, pid, t) == WinnerAmong(st, pid, t, _gather_potw_candidates(st, pid, t))

PotwDueWith(st, pid, t, min_posts) ==
    /\ feature_enabled(pid, "potw")
    /\ interval_elapsed(Get(st.last_potw, pid, None), POTW_INTERVAL_DAYS, t)
    /\ Candidates(st, pid, t, min_posts) # {}

PotwDue(st, pid, t) == PotwDueWith(st, pid, t, POTW_MIN_POSTS)

\* len(boons): the repository holds no file at BOONS_PATH, so the list is the
\* one boon of the except branch
FLAVOUR_BOONS == 1

\* len(chosen_boons): min(3, len(boons)) flavour boons and a mechanical one
POTW_BOON_COUNT == (IF FLAVOUR_BOONS < 3 THEN FLAVOUR_BOONS ELSE 3) + 1

\* player_of_the_week when the setting potw_min_posts is min_posts: the
\* award with its buttons; a snapshot without pending_potw_boons raises
\* after last_potw is written
PlayerOfTheWeek(st, t, fail, min_posts) ==
    LET acted == {pid \in Campaigns : PotwDueWith(st, pid, t, min_posts)}
        winner(pid) == WinnerAmong(st, pid, t, Candidates(st, pid, t, min_posts))
        stamped == [st EXCEPT !.last_potw = Stamp(@, acted, fail, t)]
        pending == [pid \in acted \ fail |->
                       [winner_user_id |-> winner(pid),
                        boons |-> POTW_BOON_COUNT,
                        posted_at |-> t]]
    IN Ctx(IF "pending_potw_boons" \in DOMAIN st
           THEN Put(stamped, "pending_potw_boons",
                    [pid \in (DOMAIN st.pending_potw_boons) \cup (DOMAIN pending) |->
                        IF pid \in DOMAIN pending
                        THEN pending[pid]
                        ELSE st.pending_potw_boons[pid]])
           ELSE stamped,
           {Msg("potw", pid, {winner(pid)}, 0, pid \notin fail) : pid \in acted})

\* player_of_the_week with the default setting
player_of_the_week(st, t, fail) == PlayerOfTheWeek(st, t, fail, POTW_MIN_POSTS)

PaceDue(st, pid, t) ==
    LET topic_timestamps == get_topic_timestamps(st, pid)
        pace == pace_split(topic_timestamps, gm_ids_for_campaign(pid), t)
    IN /\ feature_enabled(pid, "pace")
       /\ interval_elapsed(Get(st.last_pace, pid, None), PACE_INTERVAL_DAYS, t)
       /\ topic_timestamps # EmptyDict
       /\ ~(pace.gm_last + pace.player_last = 0 /\ pace.gm_this + pace.player_this = 0)

post_pace_report(st, t, fail) ==
    LET acted == {pid \in Campaigns : PaceDue(st, pid, t)}
    IN Ctx([st EXCEPT !.last_pace = Stamp(@, acted, fail, t)],
           {Notice("pace", pid, fail) : pid \in acted})

post_campaign_leaderboard(st, t, fail) ==
    IF interval_elapsed(Get(st, "last_leaderboard", None), LEADERBOARD_INTERVAL_DAYS, t)
       /\ Campaigns # {}
    THEN Ctx(IF AllCampaigns \in fail THEN st ELSE Put(st, "last_leaderboard", t),
             {Notice("leaderboard", AllCampaigns, fail)})
    ELSE Ctx(st, NoCalls)

DIGEST_INTERVAL_DAYS == 7

post_weekly_digest(st, t, fail) ==
    IF interval_elapsed(Get(st, "last_weekly_digest", None), DIGEST_INTERVAL_DAYS, t)
    THEN Ctx(IF AllCampaigns \in fail THEN st ELSE Put(st, "last_weekly_digest", t),
             {Notice("digest", AllCampaigns, fail)})
    ELSE Ctx(st, NoCalls)

RecruitmentOpen(st, pid, t) ==
    /\ feature_enabled(pid, "recruitment")
    /\ interval_elapsed(Get(st.last_recruitment_check, pid, None),
                        RECRUITMENT_INTERVAL_DAYS, t)

\* check_recruitment_needs: a full roster resets the timer without a notice;
\* a snapshot without last_recruitment_check raises before anything is done
check_recruitment_needs(st, t, fail) ==
    IF "last_recruitment_check" \notin DOMAIN st
    THEN Ctx(st, NoCalls)
    ELSE LET open == {pid \in Campaigns : RecruitmentOpen(st, pid, t)}
             full == {pid \in open :
                         REQUIRED_PLAYERS - Cardinality(players_by_campaign(st, pid)) <= 0}
             acted == open \ full
         IN Ctx(Put(st, "last_recruitment_check",
                    Stamp(st.last_recruitment_check, open, acted \cap fail, t)),
                {Notice("recruitment", pid, fail) : pid \in acted})

PACE_DROP_INTERVAL_DAYS == 7

PACE_DROP_MIN_POSTS == 5

PACE_DROP_PCT == 40

\* drop_pct > 40 for the campaign
PaceDropped(st, pid, t) ==
    LET topic_timestamps == get_topic_timestamps(st, pid)
        pace == pace_split(topic_timestamps, gm_ids_for_campaign(pid), t)
        this_week == pace.gm_this + pace.player_this
        last_week == pace.gm_last + pace.player_last
    IN /\ feature_enabled(pid, "smart_alerts")
       /\ topic_timestamps # EmptyDict
       /\ ~(last_week < PACE_DROP_MIN_POSTS)
       /\ (last_week - this_week) * 100 > PACE_DROP_PCT * last_week

\* the result of the send is dropped and the timer written whatever it was
check_pace_drop(st, t, fail) ==
    IF interval_elapsed(Get(st, "last_pace_drop_check", None), PACE_DROP_INTERVAL_DAYS, t)
    THEN Ctx(Put(st, "last_pace_drop_check", t),
             {Notice("pace_drop", pid, fail) : pid \in {p \in Campaigns : PaceDropped(st, p, t)}})
    ELSE Ctx(st, NoCalls)

\* datetime.date(): the day number of a time; day 0 is 2025-01-01 and the
\* model stays inside 2025..2027, three years of 365 days
DateOf(t) == t \div Days(1)

DaysPerYear == 365

YearOf(date) == date \div DaysPerYear

\* month and day of a date
MonthDayOf(date) == date % DaysPerYear

_STREAK_MILESTONES == {7, 14, 30, 60, 90}

\* sorted({... .date() for ts in raw_timestamps}): the posting dates, each
\* once, in ascending order
PostDates(raw_timestamps) ==
    LET dates == {DateOf(raw_timestamps[i]) : i \in 1..Len(raw_timestamps)}
    IN [i \in 1..Cardinality(dates) |->
           CHOOSE d \in dates : Cardinality({e \in dates : e < d}) = i - 1]

RECURSIVE StreakBack(_, _, _)
\* the loop of _calc_streak, for i from len(post_dates) - 1 down to 1 (here
\* one more, the lists being 1-based): a gap of one day extends the streak,
\* a gap of none is skipped, any other gap ends the count
StreakBack(post_dates, i, streak) ==
    IF i < 2
    THEN streak
    ELSE LET gap == post_dates[i] - post_dates[i - 1]
         IN IF gap = 1
            THEN StreakBack(post_dates, i - 1, streak + 1)
            ELSE IF gap = 0
            THEN StreakBack(post_dates, i - 1, streak)
            ELSE streak

_calc_streakMutant(raw_timestamps, t) ==
    IF raw_timestamps = <<>>
    THEN 0
    ELSE LET post_dates == PostDates(raw_timestamps)
         IN StreakBack(post_dates, Len(post_dates), 1)

\* _calc_streak: consecutive days with a post, counted back from the most
\* recent post date, which must be today or yesterday
_calc_streak(raw_timestamps, t) ==
    IF raw_timestamps = <<>>
    THEN 0
    ELSE LET post_dates == PostDates(raw_timestamps)
         IN IF post_dates[Len(post_dates)] < DateOf(t) - 1
            THEN 0
            ELSE StreakBack(post_dates, Len(post_dates), 1)

\* the highest milestone the streak has crossed, 0 below the first
StreakMilestone(streak) ==
    LET crossed == {m \in _STREAK_MILESTONES : streak >= m}
    IN IF crossed = {} THEN 0 ELSE CHOOSE m \in crossed : \A n \in crossed : n <= m

StreakDueMutant(st, pid, uid, t) ==
    /\ uid \notin gm_ids_for_campaign(pid)
    /\ StreakMilestone(_calc_streak(get_topic_timestamps(st, pid)[uid], t)) > 0

\* the player has crossed a streak milestone above the last one celebrated
StreakDue(st, pid, uid, t) ==
    /\ uid \notin gm_ids_for_campaign(pid)
    /\ StreakMilestone(_calc_streak(get_topic_timestamps(st, pid)[uid], t))
          > Get(Get(st, "celebrated_streaks", EmptyDict), <<pid, uid>>, 0)

\* check_streak_milestones: fail holds the (campaign, user) whose send fails
check_streak_milestones(st, t, fail) ==
    LET celebrated == Get(st, "celebrated_streaks", EmptyDict)
        milestone(k) == StreakMilestone(_calc_streak(get_topic_timestamps(st, k[1])[k[2]], t))
        acted == {k \in Campaigns \X UserIds :
                     /\ k[2] \in DOMAIN get_topic_timestamps(st, k[1])
                     /\ StreakDue(st, k[1], k[2], t)}
    IN Ctx(Put(st, "celebrated_streaks",
               [k \in (DOMAIN celebrated) \cup (acted \ fail) |->
                   IF k \in acted \ fail THEN milestone(k) ELSE celebrated[k]]),
           {Msg("streak", k[1], {k[2]}, milestone(k), k \notin fail) : k \in acted})

\* config topic_pairs[..]["created"]: the campaign was created on day 0
CreatedDate(pid) == 0

\* last_anniversary key f"{pid}:{years}"
AnniversaryKey(pid, years) == <<pid, years>>

AnniversaryDue(st, pid, t) ==
    LET today == DateOf(t)
        years == YearOf(today) - YearOf(CreatedDate(pid))
    IN /\ feature_enabled(pid, "anniversary")
       /\ MonthDayOf(today) = MonthDayOf(CreatedDate(pid))
       /\ years >= 1
       /\ AnniversaryKey(pid, years) \notin DOMAIN st.last_anniversary

\* check_anniversaries: one celebration per campaign and year
check_anniversaries(st, t, fail) ==
    LET years(pid) == YearOf(DateOf(t)) - YearOf(CreatedDate(pid))
        acted == {pid \in Campaigns : AnniversaryDue(st, pid, t)}
        recorded == {AnniversaryKey(pid, years(pid)) : pid \in acted \ fail}
    IN Ctx([st EXCEPT !.last_anniversary =
               [k \in (DOMAIN @) \cup recorded |-> IF k \in recorded THEN t ELSE @[k]]],
           {Msg("anniversary", pid, {}, years(pid), pid \notin fail) : pid \in acted})

_CAMPAIGN_MILESTONE_STEP == 500

_GLOBAL_MILESTONE_STEP == 5000

\* sum(counts.values())
RECURSIVE SumValues(_)
SumValues(counts) ==
    IF DOMAIN counts = {}
    THEN 0
    ELSE LET k == CHOOSE x \in DOMAIN counts : TRUE
         IN counts[k] + SumValues(Del(counts, k))

CampaignTotal(st, pid) ==
    SumValues(Get(Get(st, "message_counts", EmptyDict), pid, EmptyDict))

RECURSIVE GlobalTotal(_, _)
GlobalTotal(st, pids) ==
    IF pids = {}
    THEN 0
    ELSE LET pid == CHOOSE x \in pids : TRUE
         IN CampaignTotal(st, pid) + GlobalTotal(st, pids \ {pid})

\* the highest multiple of step that total has reached
HighestMilestone(total, step) == (total \div step) * step

\* celebrated_milestones keys f"campaign:{pid}" and "global"
CampaignKey(pid) == <<"campaign", pid>>

GlobalKey == <<"global", "">>

MilestoneDueMutant(st, pid) ==
    /\ CampaignTotal(st, pid) >= _CAMPAIGN_MILESTONE_STEP
    /\ HighestMilestone(CampaignTotal(st, pid), _CAMPAIGN_MILESTONE_STEP)
           >= Get(Get(st, "celebrated_milestones", EmptyDict), CampaignKey(pid), 0)

\* the campaign has crossed a multiple above the last one celebrated
MilestoneDue(st, pid) ==
    /\ CampaignTotal(st, pid) >= _CAMPAIGN_MILESTONE_STEP
    /\ HighestMilestone(CampaignTotal(st, pid), _CAMPAIGN_MILESTONE_STEP)
           > Get(Get(st, "celebrated_milestones", EmptyDict), CampaignKey(pid), 0)

\* check_message_milestones: the highest multiple crossed is announced when
\* it is above the last one announced, and recorded when the send succeeds
check_message_milestones(st, t, fail) ==
    LET celebrated == Get(st, "celebrated_milestones", EmptyDict)
        milestone(pid) == HighestMilestone(CampaignTotal(st, pid), _CAMPAIGN_MILESTONE_STEP)
        acted == {pid \in Campaigns : MilestoneDue(st, pid)}
        global_total == GlobalTotal(st, Campaigns)
        global_milestone == HighestMilestone(global_total, _GLOBAL_MILESTONE_STEP)
        global_acted ==
            /\ global_total >= _GLOBAL_MILESTONE_STEP
            /\ global_milestone > Get(celebrated, GlobalKey, 0)
        recorded == {CampaignKey(pid) : pid \in acted \ fail}
                    \cup (IF global_acted /\ AllCampaigns \notin fail THEN {GlobalKey} ELSE {})
    IN Ctx(Put(st, "celebrated_milestones",
               [k \in (DOMAIN celebrated) \cup recorded |->
                   IF k \notin recorded THEN celebrated[k]
                   ELSE IF k = GlobalKey THEN global_milestone
                   ELSE milestone(k[2])]),
           {Msg("milestone", pid, {}, milestone(pid), pid \notin fail) : pid \in acted}
               \cup (IF global_acted
                     THEN {Msg("milestone", AllCampaigns, {}, global_milestone,
                               AllCampaigns \notin fail)}
                     ELSE {}))

BOON_EXPIRY_HOURS == 48

\* callback data "boon:<topic_id>:<choice_index>": shape tells whether it has
\* the prefix, three parts and an integer index
CallbackShapes == {"other", "parts", "index", "boon"}

CallbackData(shape, topic_id, choice_idx) ==
    [shape |-> shape, topic_id |-> topic_id, choice_idx |-> choice_idx]

BoonTapAcceptedMutant(pending, user_id, choice_idx) ==
    choice_idx >= 0 /\ choice_idx < pending.boons

\* the tap comes from the winner and names one of the options
BoonTapAccepted(pending, user_id, choice_idx) ==
    /\ user_id = pending.winner_user_id
    /\ choice_idx >= 0
    /\ choice_idx < pending.boons

\* process_boon_callback: the answers to a tap on an award button
process_boon_callback(st, user_id, data) ==
    LET topic_id == data.topic_id
        all_pending == Get(st, "pending_potw_boons", EmptyDict)
        Answer(kind) == Ctx(st, {Msg(kind, topic_id, {user_id}, 0, TRUE)})
    IN IF data.shape = "other" THEN Ctx(st, NoCalls)
       ELSE IF data.shape \in {"parts", "index"} THEN Answer("boon_invalid")
       ELSE IF topic_id \notin DOMAIN all_pending THEN Answer("boon_expired")
       ELSE IF BoonTapAccepted(all_pending[topic_id], user_id, data.choice_idx)
            THEN Ctx([st EXCEPT !.pending_potw_boons = Del(@, topic_id)],
                     {Msg("boon_edit", topic_id, {user_id}, data.choice_idx, TRUE),
                      Msg("boon_chosen", topic_id, {user_id}, data.choice_idx, TRUE)})
       ELSE IF user_id # all_pending[topic_id].winner_user_id
            THEN Answer("boon_not_winner")
       ELSE Answer("boon_invalid")

\* one iteration of the loop of process_updates for a callback query
ProcessCallback(st, update_id, user_id, data) ==
    LET c == process_boon_callback(st, user_id, data)
    IN Ctx([c.st EXCEPT !.offset = NewOffset(@, update_id)], c.out)

\* the choices that have waited for BOON_EXPIRY_HOURS
BoonExpired(st, t) ==
    {topic_id \in DOMAIN Get(st, "pending_potw_boons", EmptyDict) :
        hours_since(t, st.pending_potw_boons[topic_id].posted_at) >= Hours(BOON_EXPIRY_HOURS)}

\* expire_pending_boons: the first boon is picked for the winner; the entry
\* goes whatever the edit of the award message returns
expire_pending_boons(st, t, fail) ==
    IF "pending_potw_boons" \notin DOMAIN st
    THEN Ctx(st, NoCalls)
    ELSE Ctx([st EXCEPT !.pending_potw_boons =
                 [topic_id \in (DOMAIN @) \ BoonExpired(st, t) |-> @[topic_id]]],
             {Msg("boon_auto", topic_id, {}, 0, topic_id \notin fail) :
                 topic_id \in BoonExpired(st, t)})

DYING_THRESHOLD_HOURS == 48

\* the most recent post from anyone in the campaign
LatestPost(st, pid) ==
    LET topic_timestamps == get_topic_timestamps(st, pid)
        all == UNION {Elems(topic_timestamps[uid]) : uid \in DOMAIN topic_timestamps}
    IN IF all = {} THEN None ELSE CHOOSE ts \in all : \A other \in all : other <= ts

\* the check passes over the campaign: feature off, state["paused"] set for
\* it, or nothing posted yet
DyingSkipped(st, pid) ==
    \/ ~feature_enabled(pid, "smart_alerts")
    \/ pid \in DOMAIN Get(st, "paused", EmptyDict)
    \/ LatestPost(st, pid) = None

Silent(st, pid, t) == t - LatestPost(st, pid) >= Hours(DYING_THRESHOLD_HOURS)

\* check_conversation_dying: one alert per silence period, the flag reset by
\* the first run that sees a post less than 48 hours old
check_conversation_dying(st, t, fail) ==
    LET flags == Get(st, "dying_alerts_sent", EmptyDict)
        seen == {pid \in Campaigns : ~DyingSkipped(st, pid)}
        alerted == {pid \in seen : Silent(st, pid, t) /\ Get(flags, pid, "") # "active"}
        reset == {pid \in seen : ~Silent(st, pid, t) /\ pid \in DOMAIN flags}
    IN Ctx(Put(st, "dying_alerts_sent",
               [pid \in ((DOMAIN flags) \cup (alerted \ fail)) \ reset |-> "active"]),
           {Notice("dying", pid, fail) : pid \in alerted})

TIMESTAMP_KEEP_DAYS == 15

cleanup_timestampsMutant(st, t) ==
    LET cutoff == t - Days(TIMESTAMP_KEEP_DAYS)
        Recent(ts) == SelectSeq(ts, LAMBDA x : x > cutoff)
        Filtered(pid) ==
            LET users == st.post_timestamps[pid]
                kept == {uid \in DOMAIN users : Recent(users[uid]) # <<>>}
            IN [uid \in kept |-> Recent(users[uid])]
        campaigns == {pid \in DOMAIN st.post_timestamps : DOMAIN Filtered(pid) # {}}
    IN Reordered([st EXCEPT !.post_timestamps = [pid \in campaigns |-> Filtered(pid)]])

\* cleanup_timestamps: main drops the timestamps older than 15 days, and
\* the users and campaigns left without any
cleanup_timestamps(st, t) ==
    LET cutoff == t - Days(TIMESTAMP_KEEP_DAYS)
        Recent(ts) == SelectSeq(ts, LAMBDA x : x >= cutoff)
        Filtered(pid) ==
            LET users == st.post_timestamps[pid]
                kept == {uid \in DOMAIN users : Recent(users[uid]) # <<>>}
            IN [uid \in kept |-> Recent(users[uid])]
        campaigns == {pid \in DOMAIN st.post_timestamps : DOMAIN Filtered(pid) # {}}
    IN Reordered([st EXCEPT !.post_timestamps = [pid \in campaigns |-> Filtered(pid)]])

\* isocalendar() of a day as one week number: day 0, 2025-01-01, is a
\* Wednesday, so the ISO weeks start on the days -2, 5, 12, ...
IsoWeek(day) == (day + 2) \div 7

\* week_key: the ISO week of the day seven days before the run
WeekKey(t) == IsoWeek(DateOf(t - Days(7)))

\* archive_weekly_data: last week's figures go to the archive file, once per
\* ISO week; the snapshot records the week archived
archive_weekly_data(st, t, fail) ==
    IF "last_archived_week" \in DOMAIN st /\ st.last_archived_week = WeekKey(t)
    THEN Ctx(st, NoCalls)
    ELSE Ctx(Put(st, "last_archived_week", WeekKey(t)), NoCalls)

TIP_INTERVAL_HOURS == 22

\* post_daily_tip gets as far as its send: no tip in the last 22 hours and a
\* campaign to post it to
TipReachesSend(st, t) ==
    /\ \/ Get(st, "last_daily_tip", None) = None
       \/ ~(hours_since(t, st.last_daily_tip) < Hours(TIP_INTERVAL_HOURS))
    /\ {pid \in Campaigns : feature_enabled(pid, "alerts")} # {}

post_daily_tipMutant(st, t, fail) ==
    IF TipReachesSend(st, t)
    THEN Ctx(Put(Put(st, "last_daily_tip", t),
                 "used_tip_indices", Append(Get(st, "used_tip_indices", <<>>), 0)),
             {Msg("tip", AllCampaigns, {}, 0, TRUE)})
    ELSE Ctx(st, NoCalls)

\* post_daily_tip: the send is called with parse_mode, which send_message
\* does not take, so the call raises before anything is sent or recorded
post_daily_tip(st, t, fail) == Ctx(st, NoCalls)

\* the labels of the list checks of _run_checks, in its order
checks ==
    << "Topic alerts",
       "Player activity",
       "Roster summary",
       "Player of the Week",
       "Boon expiry",
       "Pace report",
       "Streak milestones",
       "Anniversaries",
       "Message milestones",
       "Combat pings",
       "Leaderboard",
       "Weekly digest",
       "Recruitment",
       "Archive",
       "Pace drop",
       "Conversation dying",
       "Daily tip" >>

\* the kind of message of each check; a check named in failing has its
\* sends fail
RunKinds ==
    {"alert", "ladder", "roster", "potw", "boon_auto",
     "pace", "streak", "anniversary", "milestone", "ping",
     "leaderboard", "digest", "recruitment", "archive", "pace_drop",
     "dying", "tip"}

FailOf(failing, kind) ==
    IF kind \in failing THEN Campaigns \cup {AllCampaigns} ELSE {}

\* player_of_the_week raises a KeyError: an award was sent and the snapshot
\* has no pending_potw_boons to record its buttons in
PotwRaises(st, t, failing) ==
    /\ "pending_potw_boons" \notin DOMAIN st
    /\ {pid \in Campaigns : PotwDue(st, pid, t)} \ FailOf(failing, "potw") # {}

\* check_recruitment_needs raises a KeyError: it reads last_recruitment_check
\* by direct key for the first campaign with the feature on
RecruitmentRaises(st) ==
    /\ "last_recruitment_check" \notin DOMAIN st
    /\ \E pid \in Campaigns : feature_enabled(pid, "recruitment")

\* what a run has done so far: the snapshot, the calls, the checks invoked
\* with their now, the labels of the "Error in" lines, and whether an
\* exception left the loop
Run(st, out, log, errors, escaped) ==
    [st |-> st, out |-> out, log |-> log, errors |-> errors, escaped |-> escaped]

\* func(config, bot_state, now=now, maps=maps) for the i-th check of the list
Invoke(i, st, t, failing) ==
    CASE i = 1 -> check_and_alert(st, t, FailOf(failing, "alert"))
      [] i = 2 -> check_player_activity(st, t,
                      IF "ladder" \in failing THEN Campaigns \X PlayerIds ELSE {})
      [] i = 3 -> post_roster_summary(st, t, FailOf(failing, "roster"))
      [] i = 4 -> player_of_the_week(st, t, FailOf(failing, "potw"))
      [] i = 5 -> expire_pending_boons(st, t, FailOf(failing, "boon_auto"))
      [] i = 6 -> post_pace_report(st, t, FailOf(failing, "pace"))
      [] i = 7 -> check_streak_milestones(st, t,
                      IF "streak" \in failing THEN Campaigns \X UserIds ELSE {})
      [] i = 8 -> check_anniversaries(st, t, FailOf(failing, "anniversary"))
      [] i = 9 -> check_message_milestones(st, t, FailOf(failing, "milestone"))
      [] i = 10 -> check_combat_turns(st, t, FailOf(failing, "ping"))
      [] i = 11 -> post_campaign_leaderboard(st, t, FailOf(failing, "leaderboard"))
      [] i = 12 -> post_weekly_digest(st, t, FailOf(failing, "digest"))
      [] i = 13 -> check_recruitment_needs(st, t, FailOf(failing, "recruitment"))
      [] i = 14 -> archive_weekly_data(st, t, FailOf(failing, "archive"))
      [] i = 15 -> check_pace_drop(st, t, FailOf(failing, "pace_drop"))
      [] i = 16 -> check_conversation_dying(st, t, FailOf(failing, "dying"))
      [] i = 17 -> post_daily_tip(st, t, FailOf(failing, "tip"))

\* the i-th check of the list ends in an exception
Raises(i, st, t, failing) ==
    \/ i = 4 /\ PotwRaises(st, t, failing)
    \/ i = 13 /\ RecruitmentRaises(st)
    \/ i = 17 /\ TipReachesSend(st, t)

TryMutant(r, label, t, c, raised) ==
    Run(c.st, r.out \cup c.out, Append(r.log, <<label, t>>), r.errors, raised)

\* one turn of the loop over checks: try func(...), except Exception print
\* "Error in {label}"; c is what the check did before it returned or raised
Try(r, label, t, c, raised) ==
    Run(c.st, r.out \cup c.out, Append(r.log, <<label, t>>),
        IF raised THEN r.errors \cup {label} ELSE r.errors, FALSE)

\* for label, func in checks, from the i-th on; r and c are computed once
RECURSIVE RunFrom(_, _, _, _)
RunFrom(i, r, t, failing) ==
    IF i > Len(checks) \/ r.escaped
    THEN r
    ELSE CHOOSE end \in
             {RunFrom(i + 1, next, t, failing) :
                 next \in {Try(r, checks[i], t, c, Raises(i, r.st, t, failing)) :
                              c \in {Invoke(i, r.st, t, failing)}}} : TRUE

_run_checks(st, t, failing) ==
    CHOOSE end \in {RunFrom(1, r, t, failing) :
                       r \in {Run(st, NoCalls, <<>>, {}, FALSE)}} : TRUE

\* main after the updates are folded: the checks, the pruning of the
\* timestamps, and state_store.save unless an exception ended the run before
\* it; st is then the stored snapshot
main(st, t, failing) ==
    LET r == _run_checks(st, t, failing)
    IN [st |-> IF r.escaped THEN st ELSE cleanup_timestamps(r.st, t),
        out |-> r.out,
        log |-> r.log,
        errors |-> r.errors,
        saved |-> ~r.escaped]

----------------------------------------------------------------------------
(* The snapshot after load() of a fresh store: state.DEFAULT_STATE *)

DEFAULT_STATE ==
    [offset |-> 0,
     topics |-> EmptyDict,
     last_alerts |-> EmptyDict,
     players |-> EmptyDict,
     removed_players |-> EmptyDict,
     message_counts |-> EmptyDict,
     last_roster |-> EmptyDict,
     post_timestamps |-> EmptyDict,
     last_potw |-> EmptyDict,
     last_pace |-> EmptyDict,
     last_anniversary |-> EmptyDict,
     combat |-> EmptyDict]

----------------------------------------------------------------------------
(* Actions *)

\* the messages of the periodic checks (the rest are replies to commands)
CheckKinds ==
    {"ping", "warn", "remove", "alert", "roster", "potw", "pace",
     "leaderboard", "digest", "recruitment", "pace_drop", "milestone",
     "streak", "anniversary", "dying"}

DKey(m) == <<m.kind, m.pid, m.who, m.arg>>

\* the time of the last confirmed send of each message of a periodic check
Delivered(out, d, t) ==
    LET oks == {DKey(m) : m \in {x \in out : x.ok /\ x.kind \in CheckKinds}}
    IN [k \in (DOMAIN d) \cup oks |-> IF k \in oks THEN t ELSE d[k]]

\* a handler or check ran at wall clock now and left c
Step(c) ==
    /\ state' = c.st
    /\ sent' = c.out
    /\ delivered' = Delivered(c.out, delivered, now)
    /\ UNCHANGED now

MaxUpdates == 4

\* one update delivered by the event source and folded by process_updates
Message(user_id, pid, text, maxUpdates) ==
    /\ folded < maxUpdates
    /\ folded' = folded + 1
    /\ Step(ProcessMessage(state, state.offset, user_id, pid, text, now, now))

Tick(d, maxNow) ==
    /\ now + d <= maxNow
    /\ now' = now + d
    /\ sent' = NoCalls
    /\ UNCHANGED <<state, folded, delivered>>

CheckCombatTurns(fail) ==
    /\ Step(check_combat_turns(state, now, fail))
    /\ UNCHANGED folded

CheckPlayerActivity(fail) ==
    /\ Step(check_player_activity(state, now, fail))
    /\ UNCHANGED folded

----------------------------------------------------------------------------
(* Inputs *)

\* what a GM sends: every advance, a malformed advance, the roster commands
GmTexts ==
    {t \in RoundTexts : t.round # 0 /\ t.phase \in Phases}
    \cup {[cmd |-> "/round", round |-> 0, phase |-> "players"]}
    \cup KickTexts \cup AddTexts
    \cup [cmd : {"post", "/endcombat"}]

\* what a player sends: a post, or a GM command the player may not use
PlayerTexts ==
    [cmd : {"post"}] \cup {[cmd |-> "/round", round |-> MaxRound, phase |-> "players"]}

Post == [cmd |-> "post"]

RoundText(n, phase) == [cmd |-> "/round", round |-> n, phase |-> phase]

\* the snapshot left by folding one more message at time t
Fold(st, user_id, pid, text, t) ==
    ProcessMessage(st, st.offset, user_id, pid, text, t, t).st

----------------------------------------------------------------------------
(* Combat specification: the messages and checks of one invocation.  A    *)
(* behaviour starts from the fresh snapshot, or from the snapshot of a    *)
(* combat in progress: both players have posted, the GM opened round 1    *)
(* with the players' phase and one player has acted.  The invocation      *)
(* takes place at the moment of the last message, or four weeks later     *)
(* (nothing was posted and no run took place meanwhile).                  *)

MidCombat ==
    Fold(Fold(Fold(DEFAULT_STATE, "43", "100", Post, 0),
              GM, "100", RoundText(1, "players"), 0),
         "42", "100", Post, 0)

InitCombat ==
    /\ \/ state = DEFAULT_STATE /\ now = 0
       \/ state = MidCombat /\ now \in {0, Days(7 * PLAYER_REMOVE_WEEKS)}
    /\ sent = NoCalls
    /\ folded = 0
    /\ delivered = EmptyDict

NextCombat ==
    \/ \E pid \in Campaigns, text \in GmTexts : Message(GM, pid, text, MaxUpdates)
    \/ \E u \in PlayerIds, pid \in Campaigns, text \in PlayerTexts :
          Message(u, pid, text, MaxUpdates)
    \/ \E fail \in SUBSET Campaigns : CheckCombatTurns(fail)
    \/ \E fail \in SUBSET (Campaigns \X PlayerIds) : CheckPlayerActivity(fail)

SpecCombat == InitCombat /\ [][NextCombat]_vars

----------------------------------------------------------------------------
(* Ping specification: a combat in progress (MidCombat), the clock moving *)
(* in steps of half the ping threshold, the GM advancing or re-issuing    *)
(* the round, the players posting, and the combat ping check.             *)

PingTick == Hours(COMBAT_PING_HOURS) \div 2

MaxPingTicks == 5

MaxPingUpdates == 3

PingGmTexts ==
    {RoundText(1, "players"), RoundText(1, "enemies"), RoundText(2, "players")}

InitPing ==
    /\ state = MidCombat
    /\ now = 0
    /\ sent = NoCalls
    /\ folded = 0
    /\ delivered = EmptyDict

NextPing ==
    \/ \E pid \in Campaigns, text \in PingGmTexts :
          Message(GM, pid, text, MaxPingUpdates)
    \/ \E u \in PlayerIds, pid \in Campaigns : Message(u, pid, Post, MaxPingUpdates)
    \/ Tick(PingTick, MaxPingTicks * PingTick)
    \/ \E fail \in SUBSET Campaigns : CheckCombatTurns(fail)

SpecPing == InitPing /\ [][NextPing]_vars

----------------------------------------------------------------------------
(* Ladder specification: a player who posted at time 0, the clock         *)
(* moving by an hour (a run of the hourly schedule), a week, or 25 days   *)
(* (no run took place meanwhile), the player posting again, and the       *)
(* inactivity ladder with any outcome of its sends.                       *)

OnePlayer == Fold(DEFAULT_STATE, "42", "100", Post, 0)

LadderDayTicks == {Days(7), Days(25)}

MaxLadderDays == 28

MaxLadderHours == 2

MaxLadderUpdates == 2

InitLadder ==
    /\ state = OnePlayer
    /\ now = 0
    /\ sent = NoCalls
    /\ folded = 0
    /\ delivered = EmptyDict

HourTick ==
    /\ now % Days(1) < Hours(MaxLadderHours)
    /\ Tick(Hours(1), Days(MaxLadderDays) + Hours(MaxLadderHours))

NextLadder ==
    \/ \E pid \in Campaigns : Message("42", pid, Post, MaxLadderUpdates)
    \/ \E d \in LadderDayTicks : Tick(d, Days(MaxLadderDays) + Hours(MaxLadderHours))
    \/ HourTick
    \/ \E fail \in SUBSET (Campaigns \X PlayerIds) : CheckPlayerActivity(fail)

SpecLadder == InitLadder /\ [][NextLadder]_vars

----------------------------------------------------------------------------
(* Checks specification: invocations of the scheduled run.  The snapshot  *)
(* is the one a store seeded with the later keys has after a player       *)
(* posted five sessions an hour apart, or the same from a fresh store.    *)
(* No update arrives meanwhile.  The clock moves by the alert threshold,  *)
(* the roster interval or a week; a run executes the checks in the order  *)
(* of _run_checks, none, one or all of them failing to send.              *)

\* a store that already holds the keys DEFAULT_STATE does not list
SeededState ==
    Put(Put(DEFAULT_STATE, "last_recruitment_check", EmptyDict),
        "pending_potw_boons", EmptyDict)

RECURSIVE FoldPosts(_, _, _, _)
FoldPosts(st, user_id, pid, times) ==
    IF times = <<>>
    THEN st
    ELSE LET next == Fold(st, user_id, pid, Post, Head(times))
         IN \* comparing next computes it before the rest is folded
            IF next = next
            THEN FoldPosts(next, user_id, pid, Tail(times))
            ELSE next

PostTimes == [i \in 1..POTW_MIN_POSTS |-> Hours(i - 1)]

BusyWeek(st) == FoldPosts(st, "42", "100", PostTimes)

MaxChecksDays == 7

MaxAlertTicks == 1

\* the checks with a debounce record of their own, and the ladder
OutageKinds ==
    {"alert", "ladder", "roster", "potw", "pace", "ping",
     "leaderboard", "digest", "recruitment", "pace_drop"}

\* the sends of a run all succeed, all fail, or those of one of these checks
\* fail
Outages == {{}, RunKinds} \cup {{kind} : kind \in OutageKinds}

InitChecks ==
    /\ state \in {BusyWeek(SeededState), BusyWeek(DEFAULT_STATE)}
    /\ now = PostTimes[Len(PostTimes)]
    /\ sent = NoCalls
    /\ folded = 0
    /\ delivered = EmptyDict

\* one invocation of main when get_updates returns no update: the checks,
\* the pruning of the timestamps and the save
RunChecks(failing) ==
    /\ Step(main(state, now, failing))
    /\ UNCHANGED folded

AlertTick ==
    /\ (now - PostTimes[Len(PostTimes)]) % Days(1) < MaxAlertTicks * Hours(ALERT_AFTER_HOURS)
    /\ Tick(Hours(ALERT_AFTER_HOURS), Days(MaxChecksDays + 1))

DayTick(d) == Tick(Days(d), Days(MaxChecksDays + 1))

NextChecks ==
    \/ AlertTick
    \/ \E d \in {ROSTER_INTERVAL_DAYS, POTW_INTERVAL_DAYS} : DayTick(d)
    \/ \E failing \in Outages : RunChecks(failing)

SpecChecks == InitChecks /\ [][NextChecks]_vars

----------------------------------------------------------------------------
(* Properties of the combat turn state machine *)

ActedSet(st, pid) == Elems(st.combat[pid].players_acted)

\* the step folded a GM advance into the players' phase of an existing
\* record whose phase was not players or whose round differs
IsResetAdvance(pid) ==
    /\ \E m \in sent' : m.kind = "round_players" /\ m.pid = pid
    /\ \/ state.combat[pid].current_phase # "players"
       \/ state.combat[pid].round # state'.combat[pid].round

\* C6: while a combat record exists, a step empties its acted-set exactly
\* when it is a GM advance to the players' phase from another phase or to
\* another round; every other step (advance to enemies, re-issue of the same
\* round and phase, any message, the ping check, the ladder) keeps every
\* member of the acted-set.
C6_ActedClearsOnlyOnNewPlayersPhase ==
    [][\A pid \in (DOMAIN state.combat) \cap (DOMAIN state'.combat) :
          IF IsResetAdvance(pid)
          THEN state'.combat[pid].players_acted = <<>>
          ELSE ActedSet(state, pid) \subseteq ActedSet(state', pid)]_vars

\* the advance to round 2 was folded right after MidCombat, where a player
\* had acted in round 1, and the acted-set is now empty
C6_Witness ==
    /\ "100" \in DOMAIN state.combat
    /\ state.offset = MidCombat.offset + 1
    /\ folded = 1
    /\ Msg("round_players", "100", {}, 2, TRUE) \in sent
    /\ state.combat["100"].round = 2
    /\ state.combat["100"].players_acted = <<>>

Covered(st, pid) ==
    /\ pid \in DOMAIN st.combat
    /\ st.combat[pid].current_phase = "players"
    /\ Known(st, pid) # {}
    /\ Known(st, pid) \subseteq ActedSet(st, pid)

\* C7: in the step in which the acted-set comes to cover every known player
\* during the players' phase, an all-players-have-acted notification is sent
\* and the record's auto-notify flag is set.
C7_AllActedNotifiedAtOnce ==
    [][\A pid \in Campaigns :
          /\ ~Covered(state, pid)
          /\ Covered(state', pid)
          /\ ActedSet(state', pid) # ActedSet(state, pid)
          => /\ \E m \in sent' : m.kind = "all_acted" /\ m.pid = pid
             /\ "all_players_notified" \in DOMAIN state'.combat[pid]]_vars

Created(pid) == pid \notin DOMAIN state.combat /\ pid \in DOMAIN state'.combat

\* C8 as stated: a record created by an advance command has round 1, the
\* requested phase, an empty acted-set and no last-ping time.
C8_CreatedWithRoundOne ==
    [][\A pid \in Campaigns :
          Created(pid)
          => /\ state'.combat[pid].round = 1
             /\ state'.combat[pid].players_acted = <<>>
             /\ state'.combat[pid].last_ping_at = None]_vars

\* C8 amended: a record created by an advance command has the round and the
\* phase the command names, an empty acted-set and no last-ping time.
C8_CreatedWithNamedRound ==
    [][\A pid \in Campaigns :
          Created(pid)
          => /\ \E m \in sent' :
                   /\ m.pid = pid
                   /\ \/ m.kind = "round_players"
                         /\ state'.combat[pid].current_phase = "players"
                      \/ m.kind = "round_enemies"
                         /\ state'.combat[pid].current_phase = "enemies"
                   /\ state'.combat[pid].round = m.arg
             /\ state'.combat[pid].active
             /\ state'.combat[pid].phase_started_at = now
             /\ state'.combat[pid].players_acted = <<>>
             /\ state'.combat[pid].last_ping_at = None]_vars

\* the GM's "/round 2 enemies" created the record of a campaign without one
C8_Witness ==
    /\ "100" \in DOMAIN state.combat
    /\ folded = 1
    /\ state.offset = 1
    /\ Msg("round_enemies", "100", {}, 2, TRUE) \in sent
    /\ state.combat["100"].round = 2
    /\ state.combat["100"].current_phase = "enemies"

\* C9: every user id of an acted-set is the user id of an active player of
\* that campaign.
C9_ActedSubsetOfPlayers ==
    \A pid \in DOMAIN state.combat : ActedSet(state, pid) \subseteq Known(state, pid)

----------------------------------------------------------------------------
(* Properties of the combat ping *)

Pings(out) == {m \in out : m.kind = "ping"}

\* C10 as stated: a ping is sent only in the players' phase, when more than
\* the ping threshold has elapsed since the phase started and since the last
\* ping (if any), and it names exactly the known players who have not acted.
C10_PingOnlyWhenThresholdExceeded ==
    [][\A m \in Pings(sent') :
          LET combat == state.combat[m.pid]
          IN /\ combat.current_phase = "players"
             /\ now - combat.phase_started_at > Hours(COMBAT_PING_HOURS)
             /\ \/ combat.last_ping_at = None
                \/ now - combat.last_ping_at > Hours(COMBAT_PING_HOURS)
             /\ m.who = Known(state, m.pid) \ ActedSet(state, m.pid)]_vars

\* C10 amended: a ping is sent only in the players' phase, when at least the
\* ping threshold has elapsed since the phase started and since the last ping
\* (if any); it names exactly the known players who have not acted, at least
\* one; nothing is sent in the enemies' phase.
C10_PingOnlyWhenThresholdReached ==
    [][\A m \in Pings(sent') :
          LET combat == state.combat[m.pid]
          IN /\ combat.current_phase = "players"
             /\ now - combat.phase_started_at >= Hours(COMBAT_PING_HOURS)
             /\ \/ combat.last_ping_at = None
                \/ now - combat.last_ping_at >= Hours(COMBAT_PING_HOURS)
             /\ m.who = Known(state, m.pid) \ ActedSet(state, m.pid)
             /\ m.who # {}]_vars

\* a ping went out two thresholds after the phase started, naming the one
\* player who has not acted
C10_Witness ==
    /\ "100" \in DOMAIN state.combat
    /\ state.combat["100"].current_phase = "players"
    /\ state.combat["100"].phase_started_at = 0
    /\ now = 2 * Hours(COMBAT_PING_HOURS)
    /\ state.combat["100"].last_ping_at = now
    /\ Msg("ping", "100", {"43"}, 1, TRUE) \in sent
    /\ folded = 0


----------------------------------------------------------------------------
(* Properties of the inactivity ladder *)

\* the step is one run of check_player_activity
LadderRun ==
    /\ now' = now
    /\ folded' = folded
    /\ \E fail \in SUBSET (Campaigns \X PlayerIds) :
          LET c == check_player_activity(state, now, fail)
          IN state' = c.st /\ sent' = c.out

\* the ladder messages of a run that name the player
LadderMsgs(out, k) ==
    {m \in out : m.kind \in {"warn", "remove"} /\ m.pid = k[1] /\ m.who = {k[2]}}

WarnKey(k, week) == <<"warn", k[1], {k[2]}, week>>

\* int(elapsed_days) of the player at time t
DaysInactive(st, k, t) == days_since(t, st.players[k].last_post_time) \div Days(1)

NeverWarned25(st, k, t) ==
    /\ ~LadderSkipped(st, k)
    /\ st.players[k].last_warned_week = 0
    /\ DaysInactive(st, k, t) = 25

\* the first run on a never-warned player silent 25 days sends exactly the
\* week-1 warning
FirstRunSendsWeekOne(k) ==
    LadderRun /\ NeverWarned25(state, k, now)
    => \E ok \in BOOLEAN :
          LadderMsgs(sent', k) = {Msg("warn", k[1], {k[2]}, 1, ok)}

\* the week-1 warning reached the player when they had been silent 25 days
WeekOneAt25(k) ==
    /\ WarnKey(k, 1) \in DOMAIN delivered
    /\ (delivered[WarnKey(k, 1)] - state.players[k].last_post_time) \div Days(1) = 25

\* C3 as stated: a player silent 25 days and never warned gets exactly the
\* week-1 warning on the first run, and no run less than a week after it sends
\* the week-2 warning.
C3_WeekTwoOnlyAfterFurtherWeek ==
    [][\A k \in DOMAIN state.players :
          /\ FirstRunSendsWeekOne(k)
          /\ \A m \in LadderMsgs(sent', k) :
                m.kind = "warn" /\ m.arg = 2 /\ WeekOneAt25(k)
                => now - delivered[WarnKey(k, 1)] >= Days(7)]_vars

\* C3 amended: a player silent 25 days and never warned gets exactly the
\* week-1 warning on the first run; the week-2 warning is sent only by a later
\* run, once the week-1 warning of this silence has been sent successfully.
C3_WeekTwoOnlyAfterWeekOneDelivered ==
    [][\A k \in DOMAIN state.players :
          /\ FirstRunSendsWeekOne(k)
          /\ \A m \in LadderMsgs(sent', k) :
                m.kind = "warn" /\ m.arg = 2
                => /\ state.players[k].last_warned_week = 1
                   /\ WarnKey(k, 1) \in DOMAIN delivered
                   /\ delivered[WarnKey(k, 1)] >= state.players[k].last_post_time
                   /\ delivered[WarnKey(k, 1)] <= now]_vars

\* the week-2 warning went out within a week of the week-1 warning, which the
\* player got on the first run after 25 silent days
C3_Witness ==
    \E k \in DOMAIN state.players :
        /\ WeekOneAt25(k)
        /\ Msg("warn", k[1], {k[2]}, 2, TRUE) \in sent
        /\ now - delivered[WarnKey(k, 1)] \in 1..(Days(7) - 1)

Thresholds == Elems(PLAYER_WARN_WEEKS) \cup {PLAYER_REMOVE_WEEKS}

ThresholdKey(k, week) ==
    <<IF week = PLAYER_REMOVE_WEEKS THEN "remove" ELSE "warn", k[1], {k[2]}, week>>

\* the threshold's message reached the player during the current silence
SentThisPeriod(k, week) ==
    /\ ThresholdKey(k, week) \in DOMAIN delivered
    /\ delivered[ThresholdKey(k, week)] >= state.players[k].last_post_time

\* C4: a run sends at most one ladder message per player, and the one it sends
\* is for the lowest threshold (weeks 1, 2, 3, removal at 4) not yet sent in
\* the current inactivity period: none is skipped, none is repeated.
C4_LowestUnsentThresholdOnly ==
    [][\A k \in DOMAIN state.players :
          /\ Cardinality(LadderMsgs(sent', k)) <= 1
          /\ \A m \in LadderMsgs(sent', k) :
                /\ ~SentThisPeriod(k, m.arg)
                /\ \A week \in Thresholds :
                      week < m.arg => SentThisPeriod(k, week)]_vars

\* C5: when the send of the removal notice fails the player stays in the
\* players map and is not entered in the removed-players ledger.
C5_FailedRemovalKeepsPlayer ==
    [][\A m \in sent' :
          m.kind = "remove" /\ ~m.ok
          => \A u \in m.who :
                /\ <<m.pid, u>> \in DOMAIN state'.players
                /\ <<m.pid, u>> \notin DOMAIN state'.removed_players]_vars


----------------------------------------------------------------------------
(* Properties of the debounce records *)

\* the debounce record of a check for a campaign, None when never written
Record(st, kind, pid) ==
    CASE kind = "alert" -> Get(st.last_alerts, pid, None)
      [] kind = "roster" -> Get(st.last_roster, pid, None)
      [] kind = "potw" -> Get(st.last_potw, pid, None)
      [] kind = "pace" -> Get(st.last_pace, pid, None)
      [] kind = "ping" ->
            IF pid \in DOMAIN st.combat THEN st.combat[pid].last_ping_at ELSE None
      [] kind = "leaderboard" -> Get(st, "last_leaderboard", None)
      [] kind = "digest" -> Get(st, "last_weekly_digest", None)
      [] kind = "recruitment" -> Get(Get(st, "last_recruitment_check", EmptyDict), pid, None)
      [] kind = "pace_drop" -> Get(st, "last_pace_drop_check", None)

RecordedKinds ==
    {"alert", "roster", "potw", "pace", "ping", "leaderboard", "digest",
     "recruitment", "pace_drop"}

\* C1: a run in which the send of a periodic check fails leaves that check's
\* debounce record as it was.
C1_FailedSendKeepsRecord ==
    [][\A m \in sent' :
          m.kind \in RecordedKinds /\ ~m.ok
          => Record(state', m.kind, m.pid) = Record(state, m.kind, m.pid)]_vars

IntervalKinds ==
    {"alert", "roster", "potw", "pace", "leaderboard", "digest", "recruitment"}

\* the interval of an interval-gated check, in minutes
Interval(kind) ==
    CASE kind = "alert" -> Hours(ALERT_AFTER_HOURS)
      [] kind = "roster" -> Days(ROSTER_INTERVAL_DAYS)
      [] kind = "potw" -> Days(POTW_INTERVAL_DAYS)
      [] kind = "pace" -> Days(PACE_INTERVAL_DAYS)
      [] kind = "leaderboard" -> Days(LEADERBOARD_INTERVAL_DAYS)
      [] kind = "digest" -> Days(DIGEST_INTERVAL_DAYS)
      [] kind = "recruitment" -> Days(RECRUITMENT_INTERVAL_DAYS)

\* the times of the confirmed sends of a check to a campaign
DeliveredAt(kind, pid) ==
    {delivered[k] : k \in {x \in DOMAIN delivered : x[1] = kind /\ x[2] = pid}}

\* the step is one scheduled run
RunStep ==
    /\ now' = now
    /\ folded' = folded
    /\ \E failing \in Outages :
          LET c == main(state, now, failing)
          IN state' = c.st /\ sent' = c.out

\* C2: an interval-gated check does not send to a campaign again while less
\* than its interval has passed since its last confirmed send there, and the
\* run that follows a failed send attempts that send again.
C2_DebounceNonDuplication ==
    [][/\ \A m \in sent' :
             m.kind \in IntervalKinds
             => \A t \in DeliveredAt(m.kind, m.pid) : now' - t >= Interval(m.kind)
       /\ \A m \in sent :
             m.kind \in IntervalKinds /\ ~m.ok
             => \/ \E again \in sent' : again.kind = m.kind /\ again.pid = m.pid
                \/ ~RunStep]_vars

\* a run failed to send a check while it held back another check whose last
\* confirmed send is more recent than that check's interval
C2_Witness ==
    /\ \E m \in sent : m.kind \in IntervalKinds /\ ~m.ok
    /\ \E kind \in IntervalKinds, pid \in Campaigns \cup {AllCampaigns} :
          /\ \A m \in sent : m.kind # kind
          /\ \E t \in DeliveredAt(kind, pid) : now - t \in 1..(Interval(kind) - 1)

----------------------------------------------------------------------------
(* Properties of the acted-set and of the combat record *)

\* the step folded one update; its sender is the last user of the campaign
Folded == folded' = folded + 1

Sender(pid) == state'.topics[pid].last_user_id

PlayersPhase(st, pid) ==
    pid \in DOMAIN st.combat /\ st.combat[pid].current_phase = "players"

NoDuplicates(l) == Cardinality(Elems(l)) = Len(l)

\* C11: a non-GM message received in the players' phase appends its sender
\* to the acted-set if absent and leaves the acted-set as it is if present;
\* a GM message, and any message received in the enemies' phase, adds
\* nobody; no acted-set holds a user id twice.
C11_ActedAddIsIdempotent ==
    [][/\ \A pid \in DOMAIN state'.combat :
             NoDuplicates(state'.combat[pid].players_acted)
       /\ Folded
          => \A pid \in (DOMAIN state.combat) \cap (DOMAIN state'.combat) :
                IF PlayersPhase(state, pid) /\ Sender(pid) \notin gm_ids_for_campaign(pid)
                THEN state'.combat[pid].players_acted =
                        IF InList(Sender(pid), state.combat[pid].players_acted)
                        THEN state.combat[pid].players_acted
                        ELSE Append(state.combat[pid].players_acted, Sender(pid))
                ELSE ActedSet(state', pid) \subseteq ActedSet(state, pid)]_vars

\* right after MidCombat, where player 42 had acted, player 42 sent one more
\* message and the acted-set still holds 42 once
C11_Witness ==
    /\ PlayersPhase(state, "100")
    /\ folded = 1
    /\ state.offset = MidCombat.offset + 1
    /\ state.topics["100"].last_user_id = "42"
    /\ state.message_counts["100"]["42"] = 2
    /\ state.combat["100"].players_acted = <<"42">>

\* the step folded the GM's end-combat command for the campaign
EndCombatFolded(pid) ==
    /\ Folded
    /\ state' = Fold(state, GM, pid, [cmd |-> "/endcombat"], now)

\* C12: after a GM end-combat command the campaign has no combat record,
\* and every combat record of a snapshot is active with phase players or
\* enemies.
C12_EndCombatDeletesRecord ==
    [][/\ \A pid \in DOMAIN state'.combat :
             /\ state'.combat[pid].active
             /\ state'.combat[pid].current_phase \in Phases
       /\ \A pid \in Campaigns :
             EndCombatFolded(pid) => pid \notin DOMAIN state'.combat]_vars

\* the GM ended the combat of MidCombat: the reply went out and the record
\* is gone
C12_Witness ==
    /\ folded = 1
    /\ state.offset = MidCombat.offset + 1
    /\ Msg("endcombat", "100", {}, 0, TRUE) \in sent
    /\ "100" \notin DOMAIN state.combat

----------------------------------------------------------------------------
(* Roster specification: the GM kicking and adding players by username,   *)
(* the players posting, the clock jumping to the removal threshold (no    *)
(* run took place meanwhile) and the inactivity ladder with any outcome   *)
(* of its sends, starting from the fresh snapshot.                        *)

MaxRosterUpdates == 7

MaxRosterDays == 28

InitRoster ==
    /\ state = DEFAULT_STATE
    /\ now = 0
    /\ sent = NoCalls
    /\ folded = 0
    /\ delivered = EmptyDict

\* the roster commands about one username
RosterTexts ==
    {[cmd |-> "/kick", target |-> "alice"], [cmd |-> "/addplayer", username |-> "alice"]}

NextRoster ==
    \/ \E pid \in Campaigns, text \in RosterTexts :
          Message(GM, pid, text, MaxRosterUpdates)
    \/ \E u \in PlayerIds, pid \in Campaigns : Message(u, pid, Post, MaxRosterUpdates)
    \/ Tick(Days(7 * PLAYER_REMOVE_WEEKS), Days(MaxRosterDays))
    \/ \E fail \in SUBSET (Campaigns \X PlayerIds) : CheckPlayerActivity(fail)

SpecRoster == InitRoster /\ [][NextRoster]_vars

----------------------------------------------------------------------------
(* C13: the players map and the removed ledger *)

\* C13: after any sequence of messages, /kick, /addplayer and inactivity
\* checks, no (campaign, user) key is in both the players map and the
\* removed ledger.
C13_NoKeyInBothMaps ==
    (DOMAIN state.players) \cap (DOMAIN state.removed_players) = {}

----------------------------------------------------------------------------
(* Milestones specification: a campaign one message short of its first    *)
(* message milestone, the players posting one message or a full batch of  *)
(* get_updates between two runs, and the message milestone check with any *)
(* outcome of its send.                                                   *)

MaxMilestonePosts == 2

MaxMilestoneBursts == 6

\* get_updates: "limit": 100, the most updates one invocation fetches
GET_UPDATES_LIMIT == 100

\* the snapshot left by folding a batch of n posts of one user at time t:
\* after the first post, each further one only advances the offset, the
\* user's message count and the user's timestamps
FoldBatch(st, user_id, pid, n, t) ==
    IF n = 0
    THEN st
    ELSE [Fold(st, user_id, pid, Post, t) EXCEPT
             !.offset = @ + (n - 1),
             !.message_counts[pid][user_id] = @ + (n - 1),
             !.post_timestamps[pid][user_id] = @ \o [i \in 1..(n - 1) |-> t]]

NearMilestone == FoldBatch(DEFAULT_STATE, "42", "100", _CAMPAIGN_MILESTONE_STEP - 1, 0)

InitMilestones ==
    /\ state = NearMilestone
    /\ now = 0
    /\ sent = NoCalls
    /\ folded = 0
    /\ delivered = EmptyDict

MilestonePost(u, pid) ==
    /\ folded % GET_UPDATES_LIMIT < MaxMilestonePosts
    /\ Message(u, pid, Post, folded + 1)

\* process_updates on a full batch: GET_UPDATES_LIMIT posts of one user
Burst(u, pid) ==
    /\ folded \div GET_UPDATES_LIMIT < MaxMilestoneBursts
    /\ folded' = folded + GET_UPDATES_LIMIT
    /\ Step(Ctx(FoldBatch(state, u, pid, GET_UPDATES_LIMIT, now), NoCalls))

CheckMessageMilestones(fail) ==
    /\ Step(check_message_milestones(state, now, fail))
    /\ UNCHANGED folded

NextMilestones ==
    \/ \E u \in PlayerIds, pid \in Campaigns : MilestonePost(u, pid)
    \/ \E u \in PlayerIds, pid \in Campaigns : Burst(u, pid)
    \/ \E fail \in SUBSET Campaigns : CheckMessageMilestones(fail)

SpecMilestones == InitMilestones /\ [][NextMilestones]_vars

----------------------------------------------------------------------------
(* C16: message milestones *)

\* the multiples whose notification was confirmed for the campaign
NotifiedMultiples(pid) ==
    {k[4] : k \in {x \in DOMAIN delivered : x[1] = "milestone" /\ x[2] = pid}}

MilestoneMsgs(out, pid) == {m \in out : m.kind = "milestone" /\ m.pid = pid}

\* the step is one run of the message milestone check
MilestoneRun ==
    /\ now' = now
    /\ folded' = folded
    /\ \E fail \in SUBSET Campaigns :
          LET c == check_message_milestones(state, now, fail)
          IN state' = c.st /\ sent' = c.out

\* C16 (as the code has it): for each campaign and each multiple of 500, at
\* most one notification is confirmed over the runs.  A run notifies only the
\* highest multiple the total has reached, exactly when that multiple is
\* above every multiple already confirmed, and a confirmed send records it.
C16_HighestMultipleAtMostOnce ==
    [][\A pid \in Campaigns :
          LET highest == HighestMilestone(CampaignTotal(state, pid), _CAMPAIGN_MILESTONE_STEP)
          IN /\ \A m \in MilestoneMsgs(sent', pid) :
                   /\ m.arg = highest
                   /\ m.arg >= _CAMPAIGN_MILESTONE_STEP
                   /\ \A n \in NotifiedMultiples(pid) : n < m.arg
                   /\ m.ok => state'.celebrated_milestones[CampaignKey(pid)] = m.arg
             /\ MilestoneRun /\ highest >= _CAMPAIGN_MILESTONE_STEP
                    /\ (\A n \in NotifiedMultiples(pid) : n < highest)
                => MilestoneMsgs(sent', pid) # {}]_vars

\* the second multiple is confirmed and the first one never was
C16_Witness ==
    /\ Msg("milestone", "100", {}, 2 * _CAMPAIGN_MILESTONE_STEP, TRUE) \in sent
    /\ NotifiedMultiples("100") = {2 * _CAMPAIGN_MILESTONE_STEP}

\* C16 (as stated): every multiple of 500 the campaign's total has passed is
\* notified exactly once: none is left out when a higher one is notified.
C16_EveryMultipleNotified ==
    \A pid \in Campaigns :
        \A n \in NotifiedMultiples(pid) :
            \A k \in 1..(n \div _CAMPAIGN_MILESTONE_STEP) :
                k * _CAMPAIGN_MILESTONE_STEP \in NotifiedMultiples(pid)

----------------------------------------------------------------------------
(* Thresholds specification: the three threshold checks (streak,          *)
(* anniversary, message milestone) in the order of the run.  A player has *)
(* posted on each of the last six days, the campaign is two messages      *)
(* short of its first message milestone and two days short of its first   *)
(* anniversary; the player posts, the clock moves by a day, and the       *)
(* checks run with any outcome of the sends of each check.                *)

MaxThresholdDays == 2

MaxThresholdUpdates == 3

ThresholdKinds == {"streak", "anniversary", "milestone"}

\* the threshold checks of _run_checks, in its order
ThresholdChecks(st, t, failing) ==
    LET c1 == check_streak_milestones(st, t,
                  IF "streak" \in failing THEN Campaigns \X UserIds ELSE {})
        c2 == check_anniversaries(c1.st, t, FailOf(failing, "anniversary"))
        c3 == check_message_milestones(c2.st, t, FailOf(failing, "milestone"))
    IN Ctx(c3.st, c1.out \cup c2.out \cup c3.out)

FirstYearEnd == Days(DaysPerYear)

\* six days of posts up to the day before the first day of the behaviour
SixDays == [i \in 1..6 |-> FirstYearEnd - Days(MaxThresholdDays) - Days(7 - i)]

\* the older messages were posted on day 0; the last invocation pruned
\* their timestamps
NearThresholds ==
    cleanup_timestamps(
        FoldPosts(FoldBatch(DEFAULT_STATE, "42", "100",
                            _CAMPAIGN_MILESTONE_STEP - 2 - Len(SixDays), 0),
                  "42", "100", SixDays),
        FirstYearEnd - Days(MaxThresholdDays))

InitThresholds ==
    /\ state = NearThresholds
    /\ now = FirstYearEnd - Days(MaxThresholdDays)
    /\ sent = NoCalls
    /\ folded = 0
    /\ delivered = EmptyDict

RunThresholdChecks(failing) ==
    /\ Step(ThresholdChecks(state, now, failing))
    /\ UNCHANGED folded

NextThresholds ==
    \/ \E u \in PlayerIds, pid \in Campaigns : Message(u, pid, Post, MaxThresholdUpdates)
    \/ Tick(Days(1), FirstYearEnd)
    \/ \E failing \in SUBSET ThresholdKinds : RunThresholdChecks(failing)

SpecThresholds == InitThresholds /\ [][NextThresholds]_vars

----------------------------------------------------------------------------
(* C17: the threshold checks are idempotent *)

\* the step is one run of the threshold checks in which every send succeeded
ThresholdRunOk ==
    /\ now' = now
    /\ folded' = folded
    /\ LET c == ThresholdChecks(state, now, {})
       IN state' = c.st /\ sent' = c.out

\* C17: running the threshold checks (streak, anniversary, message milestone)
\* again on the snapshot of a run whose sends all succeeded, with the same
\* now and no new message, sends nothing and leaves the snapshot unchanged.
C17_SecondRunIsSilent ==
    [][ThresholdRunOk =>
          LET again == ThresholdChecks(state', now', {})
          IN again.out = {} /\ again.st = state']_vars

\* a run has just sent a streak, an anniversary and a milestone message
C17_Witness ==
    /\ \A kind \in ThresholdKinds : \E m \in sent : m.kind = kind /\ m.ok
    /\ ThresholdChecks(state, now, {}).out = {}

----------------------------------------------------------------------------
(* Boons specification: an award has just been posted with its buttons;   *)
(* users tap buttons, well-formed or not, the clock moves by a day, and   *)
(* the expiry check runs.                                                 *)

MaxBoonUpdates == 3

MaxBoonDays == 3

\* the taps: every shape, the options around both ends of the list
Taps ==
    {CallbackData(shape, "100", 0) : shape \in CallbackShapes \ {"boon"}}
    \cup {CallbackData("boon", "100", i) : i \in {-1, 0, POTW_BOON_COUNT - 1, POTW_BOON_COUNT}}

Awarded == player_of_the_week(BusyWeek(SeededState), PostTimes[Len(PostTimes)], {}).st

InitBoons ==
    /\ state = Awarded
    /\ now = PostTimes[Len(PostTimes)]
    /\ sent = NoCalls
    /\ folded = 0
    /\ delivered = EmptyDict

Callback(user_id, data) ==
    /\ folded < MaxBoonUpdates
    /\ folded' = folded + 1
    /\ Step(ProcessCallback(state, state.offset, user_id, data))

ExpirePendingBoons(fail) ==
    /\ Step(expire_pending_boons(state, now, fail))
    /\ UNCHANGED folded

NextBoons ==
    \/ \E u \in UserIds, data \in Taps : Callback(u, data)
    \/ Tick(Days(1), PostTimes[Len(PostTimes)] + Days(MaxBoonDays))
    \/ \E fail \in SUBSET Campaigns : ExpirePendingBoons(fail)

SpecBoons == InitBoons /\ [][NextBoons]_vars

----------------------------------------------------------------------------
(* C18: the pending award choice *)

PendingBoons(st) == Get(st, "pending_potw_boons", EmptyDict)

\* the step folds the tap data of user u
TapFolded(u, data) ==
    /\ folded' = folded + 1
    /\ LET c == ProcessCallback(state, state.offset, u, data)
       IN state' = c.st /\ sent' = c.out

\* the step is a run of the expiry check
ExpiryRun ==
    /\ now' = now
    /\ folded' = folded
    /\ \E fail \in SUBSET Campaigns :
          LET c == expire_pending_boons(state, now, fail)
          IN state' = c.st /\ sent' = c.out

ValidTap(pid, u, data) ==
    /\ data.shape = "boon"
    /\ data.topic_id = pid
    /\ u = PendingBoons(state)[pid].winner_user_id
    /\ data.choice_idx \in 0..(PendingBoons(state)[pid].boons - 1)

OldEnough(pid) == now - PendingBoons(state)[pid].posted_at >= Hours(48)

\* C18: a pending award choice is removed only when the recorded winner taps
\* a valid option index, or when the expiry check finds it at least 48 hours
\* old; a tap of another user, a malformed or out-of-range option and an
\* expiry check before 48 hours leave it unchanged.
C18_PendingChoiceRemoval ==
    [][\A pid \in DOMAIN PendingBoons(state) :
          /\ pid \notin DOMAIN PendingBoons(state')
                => \/ \E u \in UserIds, data \in Taps :
                         TapFolded(u, data) /\ ValidTap(pid, u, data)
                   \/ ExpiryRun /\ OldEnough(pid)
          /\ \A u \in UserIds, data \in Taps :
                TapFolded(u, data) /\ ~ValidTap(pid, u, data)
                    => PendingBoons(state') = PendingBoons(state)
          /\ ExpiryRun /\ ~OldEnough(pid)
                => PendingBoons(state') = PendingBoons(state)
          /\ ExpiryRun /\ OldEnough(pid) => pid \notin DOMAIN PendingBoons(state')]_vars

\* the winner has just chosen the last option and the choice is gone
C18_Witness ==
    /\ \E m \in sent : m.kind = "boon_chosen" /\ m.arg = POTW_BOON_COUNT - 1
    /\ "100" \notin DOMAIN PendingBoons(state)
    /\ now - PostTimes[Len(PostTimes)] < Hours(48)

----------------------------------------------------------------------------
(* Silence specification: a player posted at time 0; the player posts     *)
(* again, the GM pauses and resumes the campaign, the clock moves by a    *)
(* day (no run took place meanwhile), and the silence check runs with any *)
(* outcome of its send.                                                   *)

MaxSilenceDays == 4

MaxSilenceUpdates == 2

SilenceGmTexts == [cmd : {"/pause", "/resume"}]

InitSilence ==
    /\ state = OnePlayer
    /\ now = 0
    /\ sent = NoCalls
    /\ folded = 0
    /\ delivered = EmptyDict

CheckConversationDying(fail) ==
    /\ Step(check_conversation_dying(state, now, fail))
    /\ UNCHANGED folded

NextSilence ==
    \/ \E pid \in Campaigns : Message("42", pid, Post, MaxSilenceUpdates)
    \/ \E pid \in Campaigns, text \in SilenceGmTexts :
          Message(GM, pid, text, MaxSilenceUpdates)
    \/ Tick(Days(1), Days(MaxSilenceDays))
    \/ \E fail \in SUBSET Campaigns : CheckConversationDying(fail)

SpecSilence == InitSilence /\ [][NextSilence]_vars

----------------------------------------------------------------------------
(* C19, C20: the silence alert *)

\* the step is one run of the silence check
DyingRun ==
    /\ now' = now
    /\ folded' = folded
    /\ \E fail \in SUBSET Campaigns :
          LET c == check_conversation_dying(state, now, fail)
          IN state' = c.st /\ sent' = c.out

DyingKey(pid) == <<"dying", pid, {}, 0>>

\* a silence alert was confirmed after the latest post of the campaign
AlertedThisSilence(pid) ==
    /\ DyingKey(pid) \in DOMAIN delivered
    /\ delivered[DyingKey(pid)] > LatestPost(state, pid)

DyingMsgs(out, pid) == {m \in out : m.kind = "dying" /\ m.pid = pid}

\* C19: for a campaign that is not paused, a run that finds the latest post
\* 48 hours old or older sends the silence alert exactly when none was
\* confirmed since that post: once per silence period, whatever the spacing
\* of the runs.  Stated of the run that would take place in each state.
C19_OneAlertPerSilencePeriod ==
    \A pid \in Campaigns :
        ~Paused(state, pid) /\ LatestPost(state, pid) # None
            => (DyingMsgs(check_conversation_dying(state, now, {}).out, pid) # {}
                   <=> /\ now - LatestPost(state, pid) >= Hours(48)
                       /\ ~AlertedThisSilence(pid))

\* C20: while the campaign is paused by /pause, a run of the silence check
\* sends no silence alert for it and leaves its silence flag as it was.
C20_PausedCampaignSkipped ==
    [][\A pid \in Campaigns :
          DyingRun /\ Paused(state, pid)
              => /\ DyingMsgs(sent', pid) = {}
                 /\ (pid \in DOMAIN Get(state', "dying_alerts_sent", EmptyDict))
                        <=> (pid \in DOMAIN Get(state, "dying_alerts_sent", EmptyDict))]_vars

----------------------------------------------------------------------------
(* C14, C15: the run of the checks.  Runs a day apart or less, on the      *)
(* snapshots of InitChecks.                                                *)

MaxRunDays == 2

NextRun ==
    \/ Tick(Days(1), Days(MaxRunDays + 1))
    \/ \E failing \in Outages : RunChecks(failing)

SpecRun == InitChecks /\ [][NextRun]_vars

\* C14: whatever sends fail, a run invokes every check of the list once, in
\* the order of the list and with the one now of the run, also after a check
\* raised, and the snapshot is saved at its end.
C14_EveryCheckInvokedOnce ==
    \A failing \in Outages :
        LET r == main(state, now, failing)
        IN /\ r.log = [i \in 1..Len(checks) |-> <<checks[i], now>>]
           /\ r.saved

\* a run in which player_of_the_week raised after its award was sent: the
\* weekly digest, later in the list, was sent and its record saved
C14_Witness ==
    /\ "pending_potw_boons" \notin DOMAIN state
    /\ \E m \in sent : m.kind = "potw" /\ m.ok
    /\ \E m \in sent : m.kind = "digest" /\ m.ok
    /\ Get(state, "last_weekly_digest", None) = now

\* the checks that raise a KeyError on a snapshot field
MissingFieldLabels == {"Player of the Week", "Recruitment"}

\* C15: on a snapshot that load returned and the handlers and checks have
\* worked on since, no check of a run fails for a missing snapshot field.
C15_NoMissingField ==
    \A failing \in Outages :
        main(state, now, failing).errors \cap MissingFieldLabels = {}

----------------------------------------------------------------------------
(* Pause specification: user 42 is a known player of campaign 100; the GM  *)
(* pauses and resumes, time passes, and the first two checks of a run,     *)
(* the inactivity alert and the ladder, are invoked.                       *)

MaxPauseWeeks == 2

MaxPauseUpdates == 2

\* the alert delay passes, once in a week
AlertDelayTick ==
    /\ now % Days(7) = 0
    /\ Tick(Hours(ALERT_AFTER_HOURS), Days(7 * MaxPauseWeeks) + Hours(ALERT_AFTER_HOURS))

\* check_and_alert, then check_player_activity, as _run_checks orders them
AlertAndLadder(st, t, failing) ==
    LET c1 == check_and_alert(st, t, FailOf(failing, "alert"))
        c2 == check_player_activity(c1.st, t,
                  IF "ladder" \in failing THEN Campaigns \X PlayerIds ELSE {})
    IN Ctx(c2.st, c1.out \cup c2.out)

RunAlertAndLadder(failing) ==
    /\ Step(AlertAndLadder(state, now, failing))
    /\ UNCHANGED folded

NextPause ==
    \/ \E pid \in Campaigns : Message("42", pid, Post, MaxPauseUpdates)
    \/ \E pid \in Campaigns, text \in SilenceGmTexts :
          Message(GM, pid, text, MaxPauseUpdates)
    \/ AlertDelayTick
    \/ Tick(Days(7), Days(7 * MaxPauseWeeks) + Hours(ALERT_AFTER_HOURS))
    \/ \E failing \in SUBSET {"alert", "ladder"} : RunAlertAndLadder(failing)

SpecPause == InitSilence /\ [][NextPause]_vars

----------------------------------------------------------------------------
(* C21: a paused campaign is left alone by the alert and the ladder *)

\* the GM's /pause is in force for the campaign
PauseInForce(pid) == pid \in DOMAIN Get(state, "paused_campaigns", EmptyDict)

\* the players and ledger entries of a campaign
RosterOf(st, pid) ==
    <<[k \in {x \in DOMAIN st.players : x[1] = pid} |-> st.players[k]],
      [k \in {x \in DOMAIN st.removed_players : x[1] = pid} |-> st.removed_players[k]]>>

\* C21: while a campaign is paused, a run of the inactivity alert and the
\* ladder sends nothing for it and leaves its alert time, its players with
\* their warning levels and its ledger entries as they were; once it is
\* resumed, a topic silent for the alert delay and never alerted is alerted.
C21_PausedCampaignLeftAlone ==
    \A pid \in Campaigns, failing \in SUBSET {"alert", "ladder"} :
        LET c == AlertAndLadder(state, now, failing)
            about == {m \in c.out : m.pid = pid}
        IN IF PauseInForce(pid)
           THEN /\ about = {}
                /\ Get(c.st.last_alerts, pid, None) = Get(state.last_alerts, pid, None)
                /\ RosterOf(c.st, pid) = RosterOf(state, pid)
           ELSE /\ pid \in DOMAIN state.topics
                /\ now - state.topics[pid].last_message_time >= Hours(ALERT_AFTER_HOURS)
                /\ pid \notin DOMAIN state.last_alerts
                => \E m \in about : m.kind = "alert"

\* a campaign that was paused and resumed: the run after the resume sent the
\* alert and the week-1 warning that no run had sent during the pause
C21_Witness ==
    /\ "paused_campaigns" \in DOMAIN state
    /\ ~PauseInForce("100")
    /\ \E m \in sent : m.kind = "alert" /\ m.pid = "100" /\ m.ok
    /\ \E m \in sent : m.kind = "warn" /\ m.pid = "100" /\ m.ok
    /\ \A k \in DOMAIN delivered : delivered[k] = now

----------------------------------------------------------------------------
(* Updates specification: the event source hands process_updates batches   *)
(* of updates with consecutive ids, of every envelope: a message or a tap  *)
(* or neither, from the group or another chat, in the campaign's thread,   *)
(* an unconfigured thread or none, by a person or a bot.                   *)

GroupId == "group"

ChatIds == {GroupId, "other"}

\* message_thread_id: the campaign's, one no campaign has, or absent
NoThread == ""

ThreadIds == {"100", "999", NoThread}

UpdateKinds == {"message", "callback_query", "none"}

Update(update_id, kind, chat_id, thread_id, user_id, is_bot) ==
    [update_id |-> update_id, kind |-> kind, chat_id |-> chat_id,
     thread_id |-> thread_id, user_id |-> user_id, is_bot |-> is_bot]

\* config["topic_pairs"]: the campaign is played in thread 100 and, after a
\* split, in thread 101
topic_pairs ==
    <<[pbp_topic_ids |-> <<"100", "101">>, chat_topic_id |-> "200"]>>

\* maps.all_pbp_ids
all_pbp_ids ==
    UNION {Elems(topic_pairs[i].pbp_topic_ids) : i \in DOMAIN topic_pairs}

to_canonicalMutant(tid) == tid

\* maps.to_canonical[tid]: the first thread id of the last pair listing tid
to_canonical(tid) ==
    LET listing == {i \in DOMAIN topic_pairs : tid \in Elems(topic_pairs[i].pbp_topic_ids)}
        pair == topic_pairs[CHOOSE i \in listing : \A j \in listing : j <= i]
    IN pair.pbp_topic_ids[1]

_parse_messageMutant(msg) ==
    /\ msg.chat_id = GroupId
    /\ msg.thread_id # NoThread
    /\ msg.thread_id \in all_pbp_ids

\* _parse_message returns a parsed message, not None
_parse_message(msg) ==
    /\ msg.chat_id = GroupId
    /\ msg.thread_id # NoThread
    /\ msg.thread_id \in all_pbp_ids
    /\ ~msg.is_bot

\* one turn of the loop of process_updates; a message is a plain post and a
\* tap names the first boon of campaign 100
ProcessUpdate(st, update, t) ==
    IF update.kind = "callback_query"
    THEN ProcessCallback(st, update.update_id, update.user_id,
                         CallbackData("boon", "100", 0))
    ELSE IF update.kind = "none" \/ ~_parse_message(update)
    THEN Ctx([st EXCEPT !.offset = NewOffset(@, update.update_id)], NoCalls)
    ELSE ProcessMessage(st, update.update_id, update.user_id,
                        to_canonical(update.thread_id), Post, t, t)

\* process_updates: the updates of a batch in order; main stores the offset
RECURSIVE process_updates(_, _, _)
process_updates(c, updates, t) ==
    IF updates = <<>>
    THEN c
    ELSE CHOOSE end \in
             {process_updates(Ctx(next.st, c.out \cup next.out), Tail(updates), t) :
                 next \in {ProcessUpdate(c.st, Head(updates), t)}} : TRUE

MaxBatch == 2

MaxSourceUpdates == 3

MaxUpdateHours == 3

\* the id of the first update the source ever hands out
FirstUpdateId == 5

Envelopes ==
    {Update(0, kind, chat_id, thread_id, user_id, is_bot) :
        kind \in UpdateKinds, chat_id \in ChatIds, thread_id \in ThreadIds,
        user_id \in {"42"}, is_bot \in BOOLEAN}

\* get_updates(offset): the next n updates not yet confirmed, ids in order
Batches(offset, n) ==
    LET first == IF offset > FirstUpdateId THEN offset ELSE FirstUpdateId
    IN {[i \in 1..n |-> [envelopes[i] EXCEPT !.update_id = first + i - 1]] :
           envelopes \in [1..n -> Envelopes]}

InitUpdates ==
    /\ state = DEFAULT_STATE
    /\ now = 0
    /\ sent = NoCalls
    /\ folded = 0
    /\ delivered = EmptyDict

\* if updates: bot_state["offset"] = process_updates(updates, config, bot_state)
ProcessUpdates(updates) ==
    /\ folded + Len(updates) <= MaxSourceUpdates
    /\ folded' = folded + Len(updates)
    /\ Step(process_updates(Ctx(state, NoCalls), updates, now))

NextUpdates ==
    \/ \E n \in 1..MaxBatch :
          /\ folded + n <= MaxSourceUpdates
          /\ \E updates \in Batches(state.offset, n) : ProcessUpdates(updates)
    \/ Tick(Hours(1), Hours(MaxUpdateHours))

SpecUpdates == InitUpdates /\ [][NextUpdates]_vars

----------------------------------------------------------------------------
(* C22: discarded events *)

\* the event is a message from another chat, without a thread id, from an
\* unconfigured thread, or sent by a bot
Discarded(update) ==
    /\ update.kind = "message"
    /\ \/ update.chat_id # GroupId
       \/ update.thread_id = NoThread
       \/ update.thread_id \notin all_pbp_ids
       \/ update.is_bot

\* C22: folding a discarded event leaves the whole snapshot as it was but
\* for the fetch offset, which moves past the event, and sends nothing.
C22_DiscardedEventChangesNothing ==
    \A update \in {batch[1] : batch \in Batches(state.offset, 1)} :
        Discarded(update)
        => LET c == ProcessUpdate(state, update, now)
           IN /\ c.out = NoCalls
              /\ c.st = [state EXCEPT !.offset = update.update_id + 1]

\* two events were taken from the source and neither left a trace
C22_Witness ==
    /\ folded = 2
    /\ state = [DEFAULT_STATE EXCEPT !.offset = FirstUpdateId + 2]
    /\ sent = NoCalls


----------------------------------------------------------------------------
(* C23: the fetch offset *)

\* the events a batch is built from when only its ids matter: a post that is
\* tracked, a tap, an update of another kind, and a post that is discarded
OffsetEnvelopes ==
    {Update(0, "message", GroupId, "100", "42", FALSE),
     Update(0, "callback_query", GroupId, "100", "42", FALSE),
     Update(0, "none", GroupId, "100", "42", FALSE),
     Update(0, "message", GroupId, NoThread, "42", TRUE)}

\* batches of one or two events carrying any ids around the stored offset,
\* in any order
AnyBatches(offset) ==
    LET ids == 0..(offset + 2)
    IN {<<[e EXCEPT !.update_id = i]>> : e \in OffsetEnvelopes, i \in ids}
       \cup {<<[e1 EXCEPT !.update_id = i1], [e2 EXCEPT !.update_id = i2]>> :
                e1 \in OffsetEnvelopes, e2 \in OffsetEnvelopes,
                i1 \in ids, i2 \in ids}

GreatestId(updates) ==
    CHOOSE i \in {updates[n].update_id : n \in DOMAIN updates} :
        \A n \in DOMAIN updates : updates[n].update_id <= i

OffsetIsMaximum ==
    \A updates \in AnyBatches(state.offset) :
        LET greatest == GreatestId(updates)
        IN process_updates(Ctx(state, NoCalls), updates, now).st.offset
               = IF greatest + 1 > state.offset THEN greatest + 1
                 ELSE state.offset

\* the ids below the stored offset are the ones the source has handed out
EveryIdBelowOffsetTakenOnce ==
    /\ folded = 0 => state.offset = DEFAULT_STATE.offset
    /\ folded > 0 => state.offset = FirstUpdateId + folded

\* C23: the offset returned for a batch is the larger of the previous offset
\* and one plus the greatest id in the batch; the stored offset never
\* decreases, and each run moves it past exactly the events it took.
C23_OffsetAdvancesPastBatch ==
    /\ [](OffsetIsMaximum /\ EveryIdBelowOffsetTakenOnce)
    /\ [][state'.offset >= state.offset]_vars

\* three events were taken from the source, a tracked post among them, and
\* the stored offset is one past the third
C23_Witness ==
    /\ folded = 3
    /\ state.offset = FirstUpdateId + 3
    /\ state.players # EmptyDict


----------------------------------------------------------------------------
(* The engine invoked once a day on a player who posts every day *)

MaxStreakDays == 92

InitStreak ==
    /\ state = DEFAULT_STATE
    /\ now = 0
    /\ sent = NoCalls
    /\ folded = 0
    /\ delivered = EmptyDict

\* player 42 has a post of today in the snapshot
PostedToday(st, t) ==
    /\ "100" \in DOMAIN st.post_timestamps
    /\ "42" \in DOMAIN st.post_timestamps["100"]
    /\ \E i \in DOMAIN st.post_timestamps["100"]["42"] :
          DateOf(st.post_timestamps["100"]["42"][i]) = DateOf(t)

\* one invocation of main: the post player 42 has just made is fetched and
\* folded, the checks run with every send succeeding, the timestamps
\* are pruned and the snapshot is saved
Invocation ==
    /\ ~PostedToday(state, now)
    /\ folded' = folded + 1
    /\ LET c == ProcessMessage(state, state.offset, "42", "100", Post,
                               now, now)
           r == main(c.st, now, {})
       IN Step(Ctx(r.st, c.out \cup r.out))

\* the next invocation is a day later
NextDay ==
    /\ PostedToday(state, now)
    /\ Tick(Days(1), Days(MaxStreakDays))

NextStreak == Invocation \/ NextDay

\* the schedule: the invocation of the day takes place and the next day
\* comes; stated on the clock and the count of folded updates
Scheduled ==
    \/ /\ ~PostedToday(state, now)
       /\ folded' = folded + 1
       /\ now' = now
    \/ /\ PostedToday(state, now)
       /\ now + Days(1) <= Days(MaxStreakDays)
       /\ now' = now + Days(1)
       /\ folded' = folded

SpecStreak ==
    InitStreak /\ [][NextStreak]_vars /\ WF_<<now, folded>>(Scheduled)

----------------------------------------------------------------------------
(* C24: streak milestones of a daily poster *)

Celebrated(m) == <<"streak", "100", {"42"}, m>> \in DOMAIN delivered

\* C24: for a non-GM player who posts every day, with the engine invoked
\* daily and every send succeeding, the celebration of each of the streak
\* milestones 7, 14, 30, 60 and 90 is eventually sent, and sent once.
C24_EveryStreakMilestoneCelebrated ==
    /\ \A m \in _STREAK_MILESTONES : <>Celebrated(m)
    /\ [][\A m \in _STREAK_MILESTONES :
             Celebrated(m)
             => ~\E x \in sent' : x.kind = "streak" /\ x.arg = m]_vars


----------------------------------------------------------------------------
(* _calc_streak on bounded lists of timestamps *)

MaxCalcDay == 8

\* a post in the morning of the day, and a second one in the evening
MorningPost(day) == Days(day) + Hours(1)

EveningPost(day) == Days(day) + Hours(13)

RECURSIVE PostsOn(_, _, _)
\* the timestamps of a user who posted on the days of days from day on, once
\* or twice a day, in the order they were recorded
PostsOn(days, day, twice) ==
    IF day > MaxCalcDay
    THEN <<>>
    ELSE (IF day \notin days THEN <<>>
          ELSE IF twice THEN <<MorningPost(day), EveningPost(day)>>
          ELSE <<MorningPost(day)>>)
         \o PostsOn(days, day + 1, twice)

\* the snapshot in which player 42 of campaign 100 has these timestamps
WithTimestamps(raw_timestamps) ==
    IF raw_timestamps = <<>>
    THEN OnePlayer
    ELSE [OnePlayer EXCEPT
             !.post_timestamps = Put(EmptyDict, "100", Put(EmptyDict, "42", raw_timestamps))]

InitCalc ==
    /\ \E days \in SUBSET (0..MaxCalcDay), twice \in BOOLEAN :
          state = WithTimestamps(PostsOn(days, 0, twice))
    /\ now \in {Days(day) + Hours(20) : day \in (MaxCalcDay - 1)..(MaxCalcDay + 2)}
    /\ sent = NoCalls
    /\ folded = 0
    /\ delivered = EmptyDict

\* check_streak_milestones applies _calc_streak to every list of timestamps
CheckStreakMilestones(fail) ==
    /\ Step(check_streak_milestones(state, now, fail))
    /\ UNCHANGED folded

NextCalc == \E fail \in SUBSET {<<"100", "42">>} : CheckStreakMilestones(fail)

SpecCalc == InitCalc /\ [][NextCalc]_vars

----------------------------------------------------------------------------
(* C25: the posting streak *)

\* the timestamps of player 42 in campaign 100
RawTimestamps == Get(get_topic_timestamps(state, "100"), "42", <<>>)

DatesOf(raw_timestamps) ==
    {DateOf(raw_timestamps[i]) : i \in 1..Len(raw_timestamps)}

\* the days with a post, counted back from last without a break
RunBack(dates, last) ==
    CHOOSE k \in 1..Cardinality(dates) :
        /\ \A j \in 0..(k - 1) : last - j \in dates
        /\ last - k \notin dates

\* C25: the streak is 0 for an empty list and when the most recent post date
\* is before yesterday; otherwise it is the number of consecutive calendar
\* days with a post counted back from the most recent post date, a day with
\* several posts counting once; a post older than the first day without a
\* post leaves it unchanged.
C25_StreakCountsConsecutiveDays ==
    LET raw == RawTimestamps
        dates == DatesOf(raw)
        last == CHOOSE d \in dates : \A e \in dates : e <= d
        streak == _calc_streak(raw, now)
    IN /\ raw = <<>> => streak = 0
       /\ raw # <<>> /\ last < DateOf(now) - 1 => streak = 0
       /\ raw # <<>> /\ last >= DateOf(now) - 1
          => /\ streak = RunBack(dates, last)
             /\ \A day \in 0..MaxCalcDay :
                   day < last - streak
                   => /\ _calc_streak(<<MorningPost(day)>> \o raw, now) = streak
                      /\ _calc_streak(Append(raw, EveningPost(day)), now) = streak

\* the player posted on day 0 and, twice a day, from six days ago to today,
\* but not seven days ago: the streak is 7 and the 7-day milestone has been
\* celebrated
C25_Witness ==
    /\ DateOf(now) = MaxCalcDay
    /\ RawTimestamps = PostsOn({0} \cup ((MaxCalcDay - 6)..MaxCalcDay), 0, TRUE)
    /\ _calc_streak(RawTimestamps, now) = 7
    /\ Get(Get(state, "celebrated_streaks", EmptyDict), <<"100", "42">>, 0) = 7


----------------------------------------------------------------------------
(* deduplicate_posts on bounded lists of timestamps *)

MaxSessionPosts == 3

\* minutes of the posts: gaps below, at and above the session window
PostMinutes == {0, 5, 10, 11, 16, 22}

\* the lists of at most n timestamps, in any order, repeats included
ListsUpTo(n) == UNION {[1..k -> PostMinutes] : k \in 0..n}

InitSessions ==
    /\ \E raw_timestamps \in ListsUpTo(MaxSessionPosts) :
          state = WithTimestamps(raw_timestamps)
    /\ now = Days(1)
    /\ sent = NoCalls
    /\ folded = 0
    /\ delivered = EmptyDict

\* post_pace_report counts the sessions of every user through pace_split
PostPaceReport(fail) ==
    /\ Step(post_pace_report(state, now, fail))
    /\ UNCHANGED folded

\* the values the settings block of the configuration gives potw_min_posts
PotwMinPostsSettings == {1, 2, POTW_MIN_POSTS}

\* player_of_the_week under a configuration whose settings block sets
\* potw_min_posts
PlayerOfTheWeekRun(min_posts, fail) ==
    /\ Step(PlayerOfTheWeek(state, now, fail, min_posts))
    /\ UNCHANGED folded

NextSessions ==
    \/ \E fail \in SUBSET {"100"} : PostPaceReport(fail)
    \/ \E min_posts \in PotwMinPostsSettings, fail \in SUBSET {"100"} :
          PlayerOfTheWeekRun(min_posts, fail)

SpecSessions == InitSessions /\ [][NextSessions]_vars

----------------------------------------------------------------------------
(* C26: sessions as maximal runs *)

\* the first timestamps of the maximal runs of a sorted list in which each
\* consecutive pair is within the window
RunStarts(sorted_ts) ==
    LET starts == {i \in 1..Len(sorted_ts) :
                      i = 1 \/ sorted_ts[i] - sorted_ts[i - 1] > POST_SESSION_MINUTES}
    IN [n \in 1..Cardinality(starts) |->
           sorted_ts[CHOOSE i \in starts : Cardinality({j \in starts : j < i}) = n - 1]]

\* C26: the sessions of a list are the first timestamps of the maximal runs
\* of the sorted list in which each consecutive pair of raw timestamps is
\* within the window; two posts at most one window apart with no post
\* between them fall in the same session.
C26_SessionsAreMaximalRuns ==
    deduplicate_posts(RawTimestamps) = RunStarts(Sorted(RawTimestamps))

----------------------------------------------------------------------------
(* C27: normalization is idempotent *)

\* every consecutive gap of the list exceeds the window
Normalized(timestamps) ==
    \A i \in 2..Len(timestamps) : timestamps[i] - timestamps[i - 1] > POST_SESSION_MINUTES

\* C27: a list in which every consecutive gap exceeds the window is returned
\* unchanged, and normalizing the sessions of any list returns them
\* unchanged.
C27_NormalizationIdempotent ==
    /\ Normalized(RawTimestamps) => deduplicate_posts(RawTimestamps) = RawTimestamps
    /\ deduplicate_posts(deduplicate_posts(RawTimestamps)) = deduplicate_posts(RawTimestamps)

\* the pace report has been sent for a user with three posts, each more
\* than a window after the one before
C27_Witness ==
    /\ RawTimestamps = <<0, 11, 22>>
    /\ deduplicate_posts(RawTimestamps) = <<0, 11, 22>>
    /\ \E m \in sent : m.kind = "pace" /\ m.ok

----------------------------------------------------------------------------
(* C28: normalization is order-independent *)

\* the rearrangements of a list
Rearrangements(timestamps) ==
    {[i \in 1..Len(timestamps) |-> timestamps[p[i]]] :
        p \in {q \in [1..Len(timestamps) -> 1..Len(timestamps)] :
                  \A i, j \in 1..Len(timestamps) : q[i] = q[j] => i = j}}

\* C28: every rearrangement of a list of timestamps has the sessions of the
\* sorted list.
C28_NormalizationOrderIndependent ==
    \A P \in Rearrangements(RawTimestamps) :
        deduplicate_posts(P) = deduplicate_posts(Sorted(RawTimestamps))

\* the pace report has been sent for a user whose three posts are stored
\* latest first; the sessions are those of the sorted list
C28_Witness ==
    /\ RawTimestamps = <<22, 5, 0>>
    /\ deduplicate_posts(RawTimestamps) = <<0, 22>>
    /\ \E m \in sent : m.kind = "pace" /\ m.ok


----------------------------------------------------------------------------
(* C29: the average gap of fewer than two sessions *)

\* the sessions of the last week of player 42 in campaign 100
SessionsOfWeek == WeekSessions(state, "100", "42", now)

\* C29: the average gap of fewer than two sessions is undefined, and a
\* player whose average gap is undefined is not given the weekly award,
\* whatever the minimum session count of the configuration.
C29_UndefinedGapIsInsufficientData ==
    /\ Len(SessionsOfWeek) < 2 => ~avg_gap_hours(SessionsOfWeek).defined
    /\ \A min_posts \in PotwMinPostsSettings :
          \A m \in PlayerOfTheWeek(state, now, {}, min_posts).out :
              ~("42" \in m.who /\ ~avg_gap_hours(SessionsOfWeek).defined)


----------------------------------------------------------------------------
(* helpers.trend_icon on bounded post counts *)

RECURSIVE Pow2Floor(_)
\* the largest power of two not above n, n >= 1
Pow2Floor(n) == IF n < 2 THEN 1 ELSE 2 * Pow2Floor(n \div 2)

\* recent > previous * 1.15 in binary64 arithmetic. The double nearest 1.15
\* is 1.15 - 0.4 * 2^-52, so the exact product is 1.15 * previous less
\* 0.4 * previous * 2^-52. When 1.15 * previous is not the integer recent
\* the two differ by 1/20 or more and rounding changes nothing; when it is,
\* the product rounds to recent unless the deficit exceeds half the spacing
\* 2^(e-52) of the doubles below recent, 2^e <= recent < 2^(e+1), that is
\* unless 4 * previous > 5 * 2^e, and then it rounds to the double below
\* recent and the comparison is true.
AboveRaised(recent, previous) ==
    \/ recent * 100 > previous * 115
    \/ /\ recent * 100 = previous * 115
       /\ 4 * previous > 5 * Pow2Floor(recent)

\* recent < previous * 0.85 in binary64 arithmetic. The double nearest 0.85
\* is 0.85 - 0.2 * 2^-53; the deficit of the product never reaches half the
\* spacing of the doubles below an integer 0.85 * previous, so the product
\* rounds to that integer and the comparison is the exact one.
BelowLowered(recent, previous) == recent * 100 < previous * 85

\* helpers.trend_icon; the icons are named by what they stand for
trend_icon(recent, previous) ==
    IF previous = 0 /\ recent = 0 THEN "no-data"
    ELSE IF previous = 0 THEN "new"
    ELSE IF AboveRaised(recent, previous) THEN "up"
    ELSE IF BelowLowered(recent, previous) THEN "down"
    ELSE "steady"

MaxTrendPosts == 116

\* the session counts of this week and of last week in one campaign
InitTrend ==
    /\ state \in [recent : 0..MaxTrendPosts, previous : 0..MaxTrendPosts]
    /\ now = 0
    /\ sent = NoCalls
    /\ folded = 0
    /\ delivered = EmptyDict

\* trend = helpers.trend_icon(total_this, total_last), put in the text sent
TrendLine ==
    /\ sent = NoCalls
    /\ sent' = {Msg("trend", "100", {}, trend_icon(state.recent, state.previous), TRUE)}
    /\ UNCHANGED <<state, now, folded, delivered>>

NextTrend == TrendLine

SpecTrend == InitTrend /\ [][NextTrend]_vars

----------------------------------------------------------------------------
(* C30: the trend classifier *)

\* the class the thresholds of 15% up and 15% down give, in exact arithmetic
TrendClass(recent, previous) ==
    IF previous = 0 /\ recent = 0 THEN "no-data"
    ELSE IF previous = 0 THEN "new"
    ELSE IF recent * 100 > previous * 115 THEN "up"
    ELSE IF recent * 100 < previous * 85 THEN "down"
    ELSE "steady"

\* C30: the classifier returns no-data iff both counts are 0, new iff
\* previous = 0 < recent, up iff previous > 0 and recent > previous * 1.15,
\* down iff previous > 0 and recent < previous * 0.85, and steady otherwise;
\* trend(115, 100) is steady, trend(116, 100) is up, trend(85, 100) is
\* steady.
C30_TrendClassifier ==
    /\ trend_icon(state.recent, state.previous) = TrendClass(state.recent, state.previous)
    /\ state = [recent |-> 115, previous |-> 100]
       => trend_icon(state.recent, state.previous) = "steady"
    /\ state = [recent |-> 116, previous |-> 100]
       => trend_icon(state.recent, state.previous) = "up"
    /\ state = [recent |-> 85, previous |-> 100]
       => trend_icon(state.recent, state.previous) = "steady"


----------------------------------------------------------------------------
(* The weekly award among several posters *)

MaxAwardUpdates == 4

MaxAwardHours == 2

InitAward ==
    /\ state = SeededState
    /\ now = 0
    /\ sent = NoCalls
    /\ folded = 0
    /\ delivered = EmptyDict

NextAward ==
    \/ \E u \in UserIds : Message(u, "100", Post, MaxAwardUpdates)
    \/ Tick(Hours(1), Hours(MaxAwardHours))
    \/ \E min_posts \in PotwMinPostsSettings, fail \in SUBSET {"100"} :
          PlayerOfTheWeekRun(min_posts, fail)

SpecAward == InitAward /\ [][NextAward]_vars

----------------------------------------------------------------------------
(* C31: the winner of the weekly award *)

\* the non-GM users with at least min_posts sessions in the last 7 days
Qualifying(min_posts) ==
    {uid \in UserIds \ gm_ids_for_campaign("100") :
        /\ uid \in DOMAIN get_topic_timestamps(state, "100")
        /\ Len(WeekSessions(state, "100", uid, now)) >= min_posts}

\* the average gap of the sessions a is no larger than that of the sessions
\* b, where b has one (two sessions or more)
NoLargerGap(a, b) ==
    Len(b) >= 2
    => /\ Len(a) >= 2
       /\ (a[Len(a)] - a[1]) * (Len(b) - 1) <= (b[Len(b)] - b[1]) * (Len(a) - 1)

\* C31: the award of a campaign goes to a non-GM user with at least the
\* configured number of sessions in the last 7 days whose average gap is no
\* larger than that of any other such user; when no user qualifies the
\* check sends nothing and leaves last_potw and the pending choice alone.
C31_WinnerIsMostConsistent ==
    \A min_posts \in PotwMinPostsSettings, fail \in SUBSET {"100"} :
        LET c == PlayerOfTheWeek(state, now, fail, min_posts)
        IN /\ \A m \in c.out :
                 /\ m.kind = "potw"
                 /\ \E w \in Qualifying(min_posts) :
                       /\ m.who = {w}
                       /\ \A o \in Qualifying(min_posts) :
                             NoLargerGap(WeekSessions(state, "100", w, now),
                                         WeekSessions(state, "100", o, now))
                       /\ m.ok => c.st.pending_potw_boons["100"].winner_user_id = w
           /\ Qualifying(min_posts) = {}
              => /\ c.out = NoCalls
                 /\ c.st.last_potw = state.last_potw
                 /\ c.st.pending_potw_boons = state.pending_potw_boons

\* the award went to player 43, whose sessions are closer together than
\* those of player 42, who qualified too
C31_Witness ==
    /\ \E m \in sent : m.kind = "potw" /\ m.ok /\ m.who = {"43"}
    /\ "100" \in DOMAIN state.pending_potw_boons
    /\ state.pending_potw_boons["100"].winner_user_id = "43"
    /\ "42" \in Qualifying(2)
    /\ state.last_potw["100"] = now


----------------------------------------------------------------------------
(* Retention of the timestamp series: posts of a player and of the GM,     *)
(* the retention window passing at a time, and whole runs                             *)

MaxRetentionUpdates == 2

MaxRetentionTicks == 2

RetentionTick == Days(TIMESTAMP_KEEP_DAYS)

NextRetention ==
    \/ \E u \in {"42", GM} : Message(u, "100", Post, MaxRetentionUpdates)
    \/ Tick(RetentionTick, RetentionTick * MaxRetentionTicks)
    \/ \E failing \in {{}, RunKinds} : RunChecks(failing)

SpecRetention == InitAward /\ [][NextRetention]_vars

----------------------------------------------------------------------------
(* C32: the timestamp series are append-only in a run and pruned at its end *)

\* every series of old is a prefix of the series of the same user in new
AppendOnly(old, new) ==
    \A pid \in DOMAIN old :
        /\ pid \in DOMAIN new
        /\ \A uid \in DOMAIN old[pid] :
              /\ uid \in DOMAIN new[pid]
              /\ Len(new[pid][uid]) >= Len(old[pid][uid])
              /\ SubSeq(new[pid][uid], 1, Len(old[pid][uid])) = old[pid][uid]

\* new holds, in their order, the timestamps of old not older than the
\* retention window at t, and no series, user or campaign besides
Pruned(old, new, t) ==
    LET InWindow(x) == x >= t - Days(TIMESTAMP_KEEP_DAYS)
    IN /\ DOMAIN new \subseteq DOMAIN old
       /\ \A pid \in DOMAIN new :
             /\ DOMAIN new[pid] # {}
             /\ DOMAIN new[pid] \subseteq DOMAIN old[pid]
             /\ \A uid \in DOMAIN new[pid] :
                   /\ new[pid][uid] # <<>>
                   /\ \A i \in DOMAIN new[pid][uid] : InWindow(new[pid][uid][i])
       /\ \A pid \in DOMAIN old :
             \A uid \in DOMAIN old[pid] :
                 (\E i \in DOMAIN old[pid][uid] : InWindow(old[pid][uid][i]))
                 => /\ pid \in DOMAIN new
                    /\ uid \in DOMAIN new[pid]
                    /\ new[pid][uid] = SelectSeq(old[pid][uid], InWindow)

\* C32: folding an event and running the checks only append to the
\* timestamp series; after the pruning at the end of a run every timestamp
\* left is inside the 15-day window, every timestamp inside it is kept,
\* and no user or campaign has an empty series.
C32_AppendOnlyThenPruned ==
    /\ \A u \in UserIds, text \in Texts :
          AppendOnly(state.post_timestamps,
                     ProcessMessage(state, state.offset, u, "100", text, now, now)
                         .st.post_timestamps)
    /\ \A failing \in {{}, RunKinds} :
          /\ _run_checks(state, now, failing).st.post_timestamps
                = state.post_timestamps
          /\ Pruned(state.post_timestamps,
                    main(state, now, failing).st.post_timestamps, now)

\* player 42 posted on day 0 and the GM on day 15; the run of day 30 left
\* the post of day 15, at the edge of the window, and dropped the series of
\* player 42
C32_Witness ==
    /\ now = 2 * RetentionTick
    /\ state.post_timestamps = Put(EmptyDict, "100", Put(EmptyDict, GM, <<RetentionTick>>))
    /\ state.message_counts["100"] = Put(Put(EmptyDict, "42", 1), GM, 1)


----------------------------------------------------------------------------
(* Command specification: from the fresh snapshot or from a combat in      *)
(* progress, the GM and a player both send the GM commands (the GM also    *)
(* plain posts), an hour passing at a time.                                *)

MaxCommandUpdates == 3

MaxCommandHours == 1

\* the commands reserved to the GM
GmCommands ==
    {RoundText(2, "enemies"), RoundText(1, "players"),
     [cmd |-> "/endcombat"], [cmd |-> "/pause"], [cmd |-> "/resume"],
     [cmd |-> "/kick", target |-> "bob"],
     [cmd |-> "/addplayer", username |-> "bob"]}

InitCommands ==
    /\ state \in {DEFAULT_STATE, MidCombat}
    /\ now = 0
    /\ sent = NoCalls
    /\ folded = 0
    /\ delivered = EmptyDict

NextCommands ==
    \/ \E text \in GmCommands \cup {Post} : Message(GM, "100", text, MaxCommandUpdates)
    \/ \E text \in GmCommands : Message("42", "100", text, MaxCommandUpdates)
    \/ Tick(Hours(1), Hours(MaxCommandHours))

SpecCommands == InitCommands /\ [][NextCommands]_vars

----------------------------------------------------------------------------
(* C33: the GM commands of a sender who is not a GM *)

\* the combat of a campaign apart from the acted-set
Turn(combat) ==
    [active |-> combat.active, round |-> combat.round,
     current_phase |-> combat.current_phase,
     phase_started_at |-> combat.phase_started_at]

\* C33: whatever its text, a message of a sender who is not a GM of the
\* campaign leaves the round, phase and phase-start time of every combat as
\* they were, creates and ends no combat, leaves the paused campaigns as they
\* were, removes no player and adds no player entry besides the sender's own.
C33_NonGmCommandsHaveNoEffect ==
    \A u \in UserIds \ gm_ids_for_campaign("100"), text \in Texts :
        LET after == Fold(state, u, "100", text, now)
        IN /\ DOMAIN after.combat = DOMAIN state.combat
           /\ \A pid \in DOMAIN state.combat :
                 Turn(after.combat[pid]) = Turn(state.combat[pid])
           /\ Get(after, "paused_campaigns", EmptyDict)
                 = Get(state, "paused_campaigns", EmptyDict)
           /\ DOMAIN after.removed_players \subseteq DOMAIN state.removed_players
           /\ DOMAIN after.players = DOMAIN state.players \cup {<<"100", u>>}
           /\ \A k \in DOMAIN state.players \ {<<"100", u>>} :
                 after.players[k].username = state.players[k].username

\* player 42 sent three GM commands an hour after the GM opened round 1: the
\* combat is as the GM left it, nothing is paused, both players are tracked
\* and nobody was pre-registered
C33_Witness ==
    /\ folded = MaxCommandUpdates
    /\ now = Hours(1)
    /\ "100" \in DOMAIN state.combat
    /\ Get(Get(state.message_counts, "100", EmptyDict), "42", 0) = 1 + MaxCommandUpdates
    /\ Turn(state.combat["100"]) = Turn(MidCombat.combat["100"])
    /\ Get(state, "paused_campaigns", EmptyDict) = EmptyDict
    /\ DOMAIN state.players = {<<"100", "42">>, <<"100", "43">>}
    /\ state.removed_players = EmptyDict


----------------------------------------------------------------------------
(* Threads specification: the players write in the alternate thread of the *)
(* campaign and the GM in its first thread; the GM advances the combat     *)
(* and pre-registers a player; the ping and ladder checks run.             *)

MaxThreadUpdates == 3

\* a message of the group accepted by _parse_message and folded under the
\* campaign id of its thread
ThreadMessage(user_id, thread_id, text) ==
    /\ _parse_message(Update(state.offset, "message", GroupId, thread_id, user_id, FALSE))
    /\ Message(user_id, to_canonical(thread_id), text, MaxThreadUpdates)

ThreadTexts == {Post, RoundText(1, "players"), [cmd |-> "/addplayer", username |-> "bob"]}

NextThreads ==
    \/ \E u \in PlayerIds : ThreadMessage(u, "101", Post)
    \/ \E text \in ThreadTexts, thread_id \in {"100", "101"} :
          ThreadMessage(GM, thread_id, text)
    \/ Tick(Hours(COMBAT_PING_HOURS), Hours(COMBAT_PING_HOURS))
    \/ \E fail \in SUBSET Campaigns : CheckCombatTurns(fail)

SpecThreads == InitUpdates /\ [][NextThreads]_vars

----------------------------------------------------------------------------
(* C34: campaign keys are canonical *)

\* the first thread id of every configured campaign
CanonicalIds == {topic_pairs[i].pbp_topic_ids[1] : i \in DOMAIN topic_pairs}

\* C34: every Player entry's campaign reference and every campaign key of
\* topics, message counts, timestamp series and combat state is the first
\* thread id of a configured campaign, also for messages that arrived in an
\* alternate thread.
C34_CampaignKeysCanonical ==
    /\ \A k \in DOMAIN state.players :
          k[1] \in CanonicalIds /\ state.players[k].pbp_topic_id \in CanonicalIds
    /\ DOMAIN state.topics \subseteq CanonicalIds
    /\ DOMAIN state.message_counts \subseteq CanonicalIds
    /\ DOMAIN state.post_timestamps \subseteq CanonicalIds
    /\ DOMAIN state.combat \subseteq CanonicalIds

\* player 42 has only written in thread 101 and is tracked under campaign
\* 100, where the combat shows them as having acted
C34_Witness ==
    /\ <<"100", "42">> \in DOMAIN state.players
    /\ state.players[<<"100", "42">>].pbp_topic_id = "100"
    /\ "100" \in DOMAIN state.combat
    /\ InList("42", state.combat["100"].players_acted)
    /\ state.topics["100"].last_user_id = "42"
    /\ state.post_timestamps["100"]["42"] = <<0>>


----------------------------------------------------------------------------
(* C35: the placeholder of a pre-registered player *)

\* the active player entries of the campaign with the username
EntriesOf(pid, username) ==
    {k \in players_by_campaign(state, pid) : state.players[k].username = username}

\* C35: once a pre-registered player has posted, the campaign holds exactly
\* one active player entry for their username, keyed by their real user id,
\* and no placeholder entry.
C35_PlaceholderReplacedOnFirstPost ==
    \A u \in PlayerIds :
        <<"100", u>> \in DOMAIN state.players
        => /\ EntriesOf("100", UsernameOf(u)) = {<<"100", u>>}
           /\ <<"100", PendingId(UsernameOf(u))>> \notin DOMAIN state.players


----------------------------------------------------------------------------
(* The engine invoked every 22 hours, the tip interval, on a campaign      *)
(* where a player has just posted                                          *)

MaxTipRuns == 6

\* the last message of campaign 100 has the time of the clock
PostedNow(st, t) ==
    /\ "100" \in DOMAIN st.topics
    /\ st.topics["100"].last_message_time = t

\* one invocation of main: the post a player has just made is fetched and
\* folded, the checks run with every send succeeding, the timestamps are
\* pruned and the snapshot is saved
TipInvocation ==
    /\ ~PostedNow(state, now)
    /\ folded' = folded + 1
    /\ \E u \in PlayerIds :
          LET c == ProcessMessage(state, state.offset, u, "100", Post, now, now)
              r == main(c.st, now, {})
          IN Step(Ctx(r.st, c.out \cup r.out))

\* the next invocation is 22 hours later
NextTipRun ==
    /\ PostedNow(state, now)
    /\ Tick(Hours(TIP_INTERVAL_HOURS), Hours(TIP_INTERVAL_HOURS) * MaxTipRuns)

NextTips == TipInvocation \/ NextTipRun

\* the schedule, stated on the clock and the count of folded updates
ScheduledTips ==
    \/ /\ ~PostedNow(state, now)
       /\ folded' = folded + 1
       /\ now' = now
    \/ /\ PostedNow(state, now)
       /\ now + Hours(TIP_INTERVAL_HOURS) <= Hours(TIP_INTERVAL_HOURS) * MaxTipRuns
       /\ now' = now + Hours(TIP_INTERVAL_HOURS)
       /\ folded' = folded

SpecTips ==
    InitAward /\ [][NextTips]_vars /\ WF_<<now, folded>>(ScheduledTips)

----------------------------------------------------------------------------
(* C36: the daily tip *)

\* len(_TIPS)
TipCount == 26

TipsSent == {m \in sent : m.kind = "tip"}

\* state.get("used_tip_indices", [])
UsedTips(st) == Get(st, "used_tip_indices", <<>>)

\* state.get("last_daily_tip")
LastTip(st) == Get(st, "last_daily_tip", None)

----------------------------------------------------------------------------
(* C37: the spacing of the combat pings *)

\* the times of the confirmed pings of the campaign so far
PingTimes(pid) ==
    {delivered[k] : k \in {x \in DOMAIN delivered : x[1] = "ping" /\ x[2] = pid}}

\* C37: a ping whose send is confirmed comes at least the ping threshold
\* after every earlier confirmed ping of the campaign and at least the ping
\* threshold after the most recent advance command, whatever advances,
\* re-issues, player messages and runs came in between.
C37_PingsAThresholdApart ==
    [][\A m \in Pings(sent') :
          m.ok
          => /\ \A earlier \in PingTimes(m.pid) :
                   now - earlier >= Hours(COMBAT_PING_HOURS)
             /\ now - state.combat[m.pid].phase_started_at
                   >= Hours(COMBAT_PING_HOURS)]_vars

\* a ping at the threshold, the GM opening round 2 half a threshold later,
\* and the next ping a threshold after that advance
C37_Witness ==
    /\ now = 5 * PingTick
    /\ "100" \in DOMAIN state.combat
    /\ state.combat["100"].phase_started_at = 3 * PingTick
    /\ state.combat["100"].last_ping_at = now
    /\ PingTimes("100") = {2 * PingTick, 5 * PingTick}
    /\ \E m \in Pings(sent) : m.ok /\ m.arg = 2


----------------------------------------------------------------------------
(* C38: the range of the last-warned week *)

\* whole weeks elapsed at the clock since the player's last post
WeeksSilent(player) == (now - player.last_post_time) \div Days(7)

\* C38: the last-warned week of every active player is 0 or a configured
\* warn week and is never above the whole weeks elapsed since the player's
\* last post; every post of the player sets it back to 0.
C38_LastWarnedWeekInRange ==
    /\ \A k \in DOMAIN state.players :
          /\ state.players[k].last_warned_week \in {0} \cup Elems(PLAYER_WARN_WEEKS)
          /\ state.players[k].last_warned_week <= WeeksSilent(state.players[k])
    /\ \A u \in PlayerIds, text \in Texts :
          Fold(state, u, "100", text, now).players[<<"100", u>>].last_warned_week = 0

\* the player got the three warnings after 25 silent days and then posted:
\* the last-warned week is back at 0
C38_Witness ==
    \E k \in DOMAIN state.players :
        /\ WarnKey(k, 3) \in DOMAIN delivered
        /\ delivered[WarnKey(k, 3)] = Days(25)
        /\ state.players[k].last_post_time > Days(25)
        /\ state.players[k].last_warned_week = 0


----------------------------------------------------------------------------
(* Posts specification: a player who posted at time 0 and another player   *)
(* send posts and /status commands, a week passing at a time, and the      *)
(* inactivity ladder runs with any outcome of its sends.                   *)

MaxPostUpdates == 2

MaxPostWeeks == 1

NextPosts ==
    \/ \E u \in PlayerIds, text \in {Post, [cmd |-> "/status"]} :
          Message(u, "100", text, MaxPostUpdates)
    \/ Tick(Days(7), Days(7 * MaxPostWeeks))
    \/ \E fail \in SUBSET (Campaigns \X PlayerIds) : CheckPlayerActivity(fail)

SpecPosts == InitLadder /\ [][NextPosts]_vars

----------------------------------------------------------------------------
(* C39: every accepted message of a player is a post *)

\* the message count and the timestamp series of a user in a snapshot
CountOf(st, pid, uid) == Get(Get(st.message_counts, pid, EmptyDict), uid, 0)

SeriesOf(st, pid, uid) == Get(Get(st.post_timestamps, pid, EmptyDict), uid, <<>>)

\* the dates a message handled at the clock may carry: the clock or an hour
\* before it
MessageDates == {d \in {now, now - Hours(1)} : d >= 0}

\* C39: an accepted message of a sender who is not a GM, a slash command
\* included, adds one to the sender's message count and one timestamp, the
\* message time, to their series, sets their last-post time to the message
\* time and their warning level to 0; the ladder then sends them nothing
\* before a week has passed and the week-1 warning once it has.
C39_EveryMessageIsAPost ==
    \A u \in PlayerIds, text \in Texts, date \in MessageDates :
        LET after == ProcessMessage(state, state.offset, u, "100", text, date, now).st
            k == <<"100", u>>
            early == check_player_activity(after, date + Days(7) - 1, {})
            week1 == check_player_activity(after, date + Days(7), {})
        IN /\ CountOf(after, "100", u) = CountOf(state, "100", u) + 1
           /\ SeriesOf(after, "100", u) = Append(SeriesOf(state, "100", u), date)
           /\ k \in DOMAIN after.players
           /\ after.players[k].last_post_time = date
           /\ after.players[k].last_warned_week = 0
           /\ LadderMsgs(early.out, k) = {}
           /\ LadderMsgs(week1.out, k) = {Msg("warn", "100", {u}, 1, TRUE)}

\* player 42 got the week-1 warning and then sent /status: the command was
\* answered and counted, and the warning level is back at 0
C39_Witness ==
    /\ now = Days(7)
    /\ WarnKey(<<"100", "42">>, 1) \in DOMAIN delivered
    /\ Msg("status", "100", {}, 0, TRUE) \in sent
    /\ CountOf(state, "100", "42") = 2
    /\ SeriesOf(state, "100", "42") = <<0, Days(7)>>
    /\ state.players[<<"100", "42">>].last_post_time = Days(7)
    /\ state.players[<<"100", "42">>].last_warned_week = 0


----------------------------------------------------------------------------
(* Choice specification: an award with its buttons has just been posted.   *)
(* The expiry time or the award interval passes (no run took place         *)
(* meanwhile); the winner or the other player taps an option; a player's   *)
(* posts of the last hours are fetched; a run executes the checks in the   *)
(* order of _run_checks.                                                   *)

MaxChoiceUpdates == 1

MaxChoiceDays == 7

\* the posts a player made in the hours before the clock, an hour apart
RecentPosts == [i \in 1..POTW_MIN_POSTS |-> now - Hours(POTW_MIN_POSTS - i)]

\* process_updates folds the posts of the player
PostsFetched(user_id) ==
    /\ folded < MaxChoiceUpdates
    /\ folded' = folded + 1
    /\ Step(Ctx(FoldPosts(state, user_id, "100", RecentPosts), NoCalls))

ChoiceTap(user_id) ==
    /\ folded < MaxChoiceUpdates
    /\ folded' = folded + 1
    /\ Step(ProcessCallback(state, state.offset, user_id, CallbackData("boon", "100", 1)))

NextChoice ==
    \/ \E u \in PlayerIds : PostsFetched(u)
    \/ \E u \in PlayerIds : ChoiceTap(u)
    \/ \E d \in {Hours(BOON_EXPIRY_HOURS), Days(POTW_INTERVAL_DAYS)} :
          Tick(d, PostTimes[Len(PostTimes)] + Days(MaxChoiceDays))
    \/ \E failing \in {{}, RunKinds} : RunChecks(failing)

SpecChoice == InitBoons /\ [][NextChoice]_vars

----------------------------------------------------------------------------
(* C40: every pending award choice is finalized *)

\* the step edits the picker message of the campaign: the option the winner
\* tapped, or the first option picked by the expiry check
Finalized(pid, entry) ==
    \E m \in sent' :
        /\ m.pid = pid
        /\ \/ m.kind = "boon_auto"
           \/ m.kind = "boon_edit" /\ m.who = {entry.winner_user_id}

\* C40: a pending award choice leaves the snapshot only in a step that edits
\* its picker message with the winner's option or the auto-selected first
\* option; no newer award of the campaign takes its place before that,
\* however far apart the runs are.
C40_PendingChoiceFinalized ==
    [][\A pid \in DOMAIN PendingBoons(state) :
          \/ /\ pid \in DOMAIN PendingBoons(state')
             /\ PendingBoons(state')[pid] = PendingBoons(state)[pid]
          \/ Finalized(pid, PendingBoons(state)[pid])]_vars

====
